---------------------------- MODULE Spec2Model ----------------------------
(***************************************************************************)
(* Model of the RAG assistant of the task-management backend:              *)
(*   app/api/assistant.py   the /assistant/ask endpoint                    *)
(*   app/services/rag.py    cache, retrieval, reranking, generation,       *)
(*                          document indexing                              *)
(*   app/api/documents.py   upload, delete, the indexing background task   *)
(*   app/worker.py          the Kafka worker's document_uploaded handler   *)
(*                                                                         *)
(* A Python str is modelled as a sequence of one-character strings, so     *)
(* that len(), strip(), lower(), replace() and += are computed on the      *)
(* characters.  Optional[str] is <<>> (None) or <<s>>.                     *)
(***************************************************************************)
EXTENDS Integers, Sequences, FiniteSets, TLC

(***************************************************************************)
(* Bounds of the model.                                                    *)
(***************************************************************************)
NumQueries == 2          \* requests to /assistant/ask, numbered in order of arrival
MaxFragments == 2        \* fragments the LLM streams for one answer
NumRuns == 2             \* uploads and indexing runs
NumRows == 3             \* rows of the chunk table when a function is called on its own
MaxTopK == 2             \* largest top_k when rerank_results is called on its own
NumAuthRequests == 3     \* authenticated requests, numbered in order of arrival
NumAdminRequests == 2    \* of them, requests to the flags endpoint
MaxTokens == 3           \* access tokens issued

(***************************************************************************)
(* Program constants.                                                      *)
(***************************************************************************)
MinCachedLen == 20       \* assistant.py:83  len(full_answer) > 20
MinChunkLen == 50        \* rag.py:149       len(clean_text) < 50
SearchLimit == 5         \* assistant.py:53  limit=5
CandidatesFactor == 4    \* rag.py:184       limit * 4
RelevanceFloor == -8     \* rag.py:92        score > -8.0

(***************************************************************************)
(* Strings.                                                                *)
(***************************************************************************)
Rep(c, n) == [i \in 1..n |-> c]

None == <<>>
Some(s) == <<s>>

Whitespace == {" ", "\t", "\n"}

RECURSIVE LStrip(_)
LStrip(s) ==
    IF s = <<>> THEN <<>>
    ELSE IF Head(s) \in Whitespace THEN LStrip(Tail(s)) ELSE s

RECURSIVE RStrip(_)
RStrip(s) ==
    IF s = <<>> THEN <<>>
    ELSE IF s[Len(s)] \in Whitespace THEN RStrip(SubSeq(s, 1, Len(s) - 1)) ELSE s

\* str.strip()
Strip(s) == RStrip(LStrip(s))

\* a character outside ASCII is written by its code point: "U+00E9"
LowerChar(c) ==
    CASE c = "A" -> "a"
      [] c = "B" -> "b"
      [] c = "X" -> "x"
      [] c = "U+00C9" -> "U+00E9"
      [] OTHER -> c

\* str.lower()
Lower(s) == [i \in 1..Len(s) |-> LowerChar(s[i])]

\* hashlib.sha256(...).hexdigest(): collision-free on the inputs of the model
Sha256Hex(s) == <<"sha256">> \o s

\* the key without lower()
GetCacheKeyNoLower(text) == <<"rag_cache:">> \o Sha256Hex(Strip(text))

\* _get_cache_key
GetCacheKey(text) == <<"rag_cache:">> \o Sha256Hex(Lower(Strip(text)))

\* Python truthiness of an Optional[str]: None and "" are falsy
Truthy(opt) == opt # None /\ opt[1] # <<>>

\* the ASCII characters of the texts a cache entry holds, and their codes
AsciiChars == <<"a", "b", "k", "o", "x", "y">>
AsciiCodes == <<97, 98, 107, 111, 120, 121>>

\* the UTF-8 bytes of a character
Utf8Bytes(c) ==
    CASE c = "U+00E9" -> <<195, 169>>
      [] c = "U+00C9" -> <<195, 137>>
      [] OTHER -> <<AsciiCodes[CHOOSE k \in 1..Len(AsciiChars) : AsciiChars[k] = c]>>

RECURSIVE Utf8Encode(_)
\* str.encode(): what the client sends to the server
Utf8Encode(s) ==
    IF s = <<>> THEN <<>> ELSE Utf8Bytes(Head(s)) \o Utf8Encode(Tail(s))

RECURSIVE Utf8Decode(_)
\* bytes.decode(): what a client made with decode_responses=True returns
Utf8Decode(b) ==
    IF b = <<>> THEN <<>>
    ELSE IF Head(b) < 128
         THEN <<AsciiChars[CHOOSE k \in 1..Len(AsciiCodes) : AsciiCodes[k] = Head(b)]>>
                  \o Utf8Decode(Tail(b))
         ELSE IF b[2] = 169 THEN <<"U+00E9">> \o Utf8Decode(Tail(Tail(b)))
                            ELSE <<"U+00C9">> \o Utf8Decode(Tail(Tail(b)))

(***************************************************************************)
(* Inputs.                                                                 *)
(***************************************************************************)
\* request payloads (QueryRequest.question)
Payloads == { <<"A">>, <<" ", "A", "\n">>, <<" ">> }

\* text deltas of the LLM (chunk.content of chat.astream)
Fragments == { Rep("x", 10), Rep("y", 11) }

\* the message of empty_stream ("no suitable information found in the
\* knowledge base"; the source literal is Russian)
NoInfoMessage == <<"N", "o", " ", "i", "n", "f", "o">>

\* scores the cross-encoder may give (reranker_model.predict)
ScoreValues == { -9, -8, 3 }

Queries == 1..NumQueries

\* the cache keys the payloads map to
CacheKeys == { GetCacheKey(Strip(p)) : p \in { x \in Payloads : Strip(x) # <<>> } }

VARIABLES
    redis,            \* the key-value store: key -> answer
    req,              \* per request: position in ask_assistant_stream and its locals
    lastDone,         \* history: per key, how the latest finished request ended
    documents,        \* ids of the Document rows
    document_chunks,  \* the DocumentChunk rows
    next_id,          \* serial counters of the two tables
    run,              \* per indexing run: position in process_document and its locals
    call,             \* a function called on its own: its arguments and what it returned
    pyrotechnicians,  \* the Pyrotechnician rows: id -> row
    tokens,           \* history: the access tokens issued so far
    revoked,          \* history: the tokens issued before a finished session reset
    authreq,          \* per authenticated request: its token, the row loaded, its outcome
    response,         \* what the latest login or first_change_password answered
    topic,            \* the messages sent to the Kafka topics, in arrival order
    worker            \* the worker's consume loop: its position and its offset

authVars == <<pyrotechnicians, tokens, revoked, authreq, response>>

ragVars == <<redis, req, lastDone, documents, document_chunks, next_id, run, call>>

workerVars == <<topic, worker>>

vars == <<ragVars, authVars, workerVars>>


(***************************************************************************)
(* Rows of the chunk table and the retrieval helpers.                      *)
(***************************************************************************)
\* DocumentChunk(document_id=..., chunk_index=..., content=..., page_number=...)
DocumentChunk(id, doc_id, idx, content, page) ==
    [id |-> id, document_id |-> doc_id, chunk_index |-> idx,
     content |-> content, page_number |-> page]

\* all orderings of a finite set of rows
Orderings(S) ==
    { s \in [1..Cardinality(S) -> S] : \A i, j \in 1..Cardinality(S) : i # j => s[i] # s[j] }

\* the first n elements, s[:n]
Take(s, n) == SubSeq(s, 1, IF Len(s) < n THEN Len(s) ELSE n)

RECURSIVE SelectSeqBy(_, _)
\* the elements of s whose id is not in ids
SelectSeqBy(s, ids) ==
    IF s = <<>> THEN <<>>
    ELSE IF Head(s).id \in ids THEN SelectSeqBy(Tail(s), ids)
         ELSE <<Head(s)>> \o SelectSeqBy(Tail(s), ids \cup {Head(s).id})

\* the two result lists joined as they are
MergeCandidatesConcat(vector_results, keyword_results) ==
    vector_results \o keyword_results

\* unique_candidates = {c.id: c for c in vector_results}; then every keyword
\* result is stored under its id; list(unique_candidates.values()).
\* A dict keeps the position of the first insertion of a key.
MergeCandidates(vector_results, keyword_results) ==
    SelectSeqBy(vector_results \o keyword_results, {})

RECURSIVE InsertAsc(_, _)
\* the insertion of a sort without reverse=True
InsertAsc(s, p) ==
    IF s = <<>> THEN <<p>>
    ELSE IF Head(s)[2] <= p[2] THEN <<Head(s)>> \o InsertAsc(Tail(s), p)
         ELSE <<p>> \o s

RECURSIVE InsertDesc(_, _)
\* insert the pair p after every pair of s that scores at least as much
InsertDesc(s, p) ==
    IF s = <<>> THEN <<p>>
    ELSE IF Head(s)[2] >= p[2] THEN <<Head(s)>> \o InsertDesc(Tail(s), p)
         ELSE <<p>> \o s

RECURSIVE SortedDesc(_)
\* sorted(pairs, key=lambda x: x[1], reverse=True): stable, descending by score
SortedDesc(pairs) ==
    IF pairs = <<>> THEN <<>>
    ELSE InsertDesc(SortedDesc(SubSeq(pairs, 1, Len(pairs) - 1)), pairs[Len(pairs)])

RECURSIVE AboveFloorInclusive(_)
\* the filter with score >= -8.0
AboveFloorInclusive(scored) ==
    IF scored = <<>> THEN <<>>
    ELSE IF Head(scored)[2] >= RelevanceFloor
         THEN <<Head(scored)[1]>> \o AboveFloorInclusive(Tail(scored))
         ELSE AboveFloorInclusive(Tail(scored))

RECURSIVE AboveFloor(_)
\* [chunk for chunk, score in scored_results if score > -8.0]
AboveFloor(scored) ==
    IF scored = <<>> THEN <<>>
    ELSE IF Head(scored)[2] > RelevanceFloor
         THEN <<Head(scored)[1]>> \o AboveFloor(Tail(scored))
         ELSE AboveFloor(Tail(scored))

\* logger.info(f"Reranking top score: {scored_results[0][1]}")
TopScore(chunks, scores) ==
    SortedDesc([i \in 1..Len(chunks) |-> <<chunks[i], scores[i]>>])[1][2]

\* a rerank_results that filters and cuts without sorting
RerankWithScoresUnsorted(chunks, scores, top_k) ==
    Take(AboveFloor([i \in 1..Len(chunks) |-> <<chunks[i], scores[i]>>]), top_k)

\* the part of rerank_results after the model has returned the scores
RerankWithScores(chunks, scores, top_k) ==
    Take(AboveFloor(SortedDesc([i \in 1..Len(chunks) |-> <<chunks[i], scores[i]>>])), top_k)

\* rerank_results without the guard of an empty list
RerankResultsUnguarded(chunks, scores, top_k) ==
    [final_chunks |-> RerankWithScores(chunks, scores, top_k), submitted |-> 1]

\* rerank_results: what it returns, and how many times it submits
\* reranker_model.predict to the executor (scores: what predict returns)
RerankResultsOf(chunks, scores, top_k) ==
    IF chunks = <<>> THEN [final_chunks |-> <<>>, submitted |-> 0]
    ELSE [final_chunks |-> RerankWithScores(chunks, scores, top_k), submitted |-> 1]

(***************************************************************************)
(* The answer cache.                                                       *)
(***************************************************************************)
\* redis_client.get(key) of a client that does not decode: the bytes
RedisGetBytes(key) == IF key \in DOMAIN redis THEN Some(redis[key]) ELSE None

\* redis_client.get(key): the server holds bytes, the client decodes them
RedisGet(key) == IF key \in DOMAIN redis THEN Some(Utf8Decode(redis[key])) ELSE None

\* redis_client.set(key, answer, ex=ttl)
RedisSet(key, answer) ==
    [k \in DOMAIN redis \cup {key} |-> IF k = key THEN Utf8Encode(answer) ELSE redis[k]]

\* get_cached_answer
CachedAnswer(question) == RedisGet(GetCacheKey(question))

\* set_cached_answer, storing under the key of the raw text
StoredAnswerRawKey(question, answer) ==
    RedisSet(<<"rag_cache:">> \o Sha256Hex(question), answer)

\* set_cached_answer
StoredAnswer(question, answer) == RedisSet(GetCacheKey(question), answer)

\* the entry's time to live runs out
RedisDel(key) == [k \in DOMAIN redis \ {key} |-> redis[k]]

(***************************************************************************)
(* ask_assistant_stream: one step per awaited call.                        *)
(*                                                                         *)
(* Of a request the model keeps the locals of the endpoint (question,      *)
(* cached, vector_results, candidates, chunks, full_answer) while they are *)
(* in scope, and as history: out, the fragments the client has received;   *)
(* llm_chunks, the fragments chat.astream has produced;                    *)
(* calls, which stages the request has invoked; key, its cache key; ncand, *)
(* the size of the merged candidate list (-1 before the merge);           *)
(* top_score, the best reranker score as logged (<<>> before reranking);   *)
(* arrived_alone, while the request waits for the cache: whether every     *)
(* other request had ended when it arrived and none has arrived since;     *)
(* failed, the awaited call of the retrieval that raised (<<>>: none).     *)
(***************************************************************************)
NoCalls == [search |-> 0, rerank |-> 0, llm |-> 0, set |-> 0]

NoneDone == [kind |-> "none", text |-> <<>>]

IdleRequest ==
    [pc |-> "IDLE", question |-> <<>>, key |-> <<>>, cached |-> None,
     vector_results |-> <<>>, candidates |-> <<>>, chunks |-> <<>>,
     full_answer |-> <<>>, out |-> <<>>, llm_chunks |-> <<>>, calls |-> NoCalls,
     ncand |-> -1, top_score |-> <<>>, arrived_alone |-> FALSE, failed |-> <<>>]

Terminal == {"HTTP_400", "HTTP_500", "CACHED_HIT", "NO_CONTEXT", "DONE",
             "STREAM_RAISED", "ABORTED"}

\* the request is over: its locals are gone
Ended(st, pc) ==
    [st EXCEPT !.pc = pc, !.question = <<>>, !.vector_results = <<>>,
               !.candidates = <<>>, !.chunks = <<>>, !.full_answer = <<>>]

RECURSIVE Concat(_)
\* the text a sequence of fragments spells
Concat(fragments) ==
    IF fragments = <<>> THEN <<>> ELSE Head(fragments) \o Concat(Tail(fragments))

\* history, per key: whether the latest request for the key returned a text
\* that it read from or wrote to the cache ("cached", with the text) or
\* returned a text without doing so ("uncached"); "none" when there is no
\* such request, it failed or was abandoned, or the entry has expired since
Record(key, kind, text) ==
    lastDone' = [lastDone EXCEPT ![key] = [kind |-> kind, text |-> text]]

\* question = payload.question.strip(); an empty question is a 400
AskAssistantStream(q, payload) ==
    /\ req[q].pc = "IDLE"
    /\ \A q2 \in Queries : q2 < q => req[q2].pc # "IDLE"
    /\ req' = [q2 \in Queries |->
                 IF q2 # q THEN [req[q2] EXCEPT !.arrived_alone = FALSE]
                 ELSE IF Strip(payload) = <<>>
                 THEN Ended(IdleRequest, "HTTP_400")
                 ELSE [IdleRequest EXCEPT
                          !.question = Strip(payload),
                          !.key = GetCacheKey(Strip(payload)),
                          !.arrived_alone =
                              \A q3 \in Queries \ {q} : req[q3].pc \in Terminal \cup {"IDLE"},
                          !.pc = "CACHE_CHECK"]]
    /\ UNCHANGED <<redis, lastDone, documents, document_chunks, next_id, run, call, authVars, workerVars>>

\* the cache check without the early return
GetCachedAnswerNoReturn(q) ==
    /\ req[q].pc = "CACHE_CHECK"
    /\ req' = [req EXCEPT ![q].cached = CachedAnswer(req[q].question),
                          ![q].arrived_alone = FALSE,
                          ![q].pc = "EMBED_QUERY"]
    /\ UNCHANGED <<redis, lastDone, documents, document_chunks, next_id, run, call, authVars, workerVars>>

\* cached = await get_cached_answer(question); if cached: return fake_stream()
GetCachedAnswer(q) ==
    /\ req[q].pc = "CACHE_CHECK"
    /\ LET cached == CachedAnswer(req[q].question) IN
       /\ req' = [req EXCEPT ![q].cached = cached,
                             ![q].arrived_alone = FALSE,
                             ![q].pc = IF Truthy(cached) THEN "FAKE_STREAM"
                                       ELSE "EMBED_QUERY"]
       /\ IF Truthy(cached) THEN Record(req[q].key, "cached", cached[1])
          ELSE UNCHANGED lastDone
    /\ UNCHANGED <<redis, documents, document_chunks, next_id, run, call, authVars, workerVars>>

\* fake_stream: yield cached
FakeStream(q) ==
    /\ req[q].pc = "FAKE_STREAM"
    /\ req' = [req EXCEPT ![q] = Ended([req[q] EXCEPT !.out = <<req[q].cached[1]>>],
                                       "CACHED_HIT")]
    /\ UNCHANGED <<redis, lastDone, documents, document_chunks, next_id, run, call, authVars, workerVars>>

\* a failure of the keyword query caught in search_related_chunks, which
\* goes on with the results of the vector query alone
RetrievalFailsDegrades(q) ==
    /\ req[q].pc \in {"EMBED_QUERY", "VECTOR_QUERY", "KEYWORD_QUERY", "RERANK", "LOAD_TITLES"}
    /\ req' = [req EXCEPT ![q] =
                 IF req[q].pc = "KEYWORD_QUERY" /\ req[q].vector_results # <<>>
                 THEN [req[q] EXCEPT !.failed = <<req[q].pc>>,
                                     !.candidates = req[q].vector_results,
                                     !.vector_results = <<>>,
                                     !.ncand = Len(req[q].vector_results),
                                     !.pc = "RERANK"]
                 ELSE Ended([req[q] EXCEPT !.calls.search = 1,
                                           !.calls.rerank = IF req[q].pc = "RERANK" THEN 1 ELSE @,
                                           !.failed = <<req[q].pc>>],
                            "HTTP_500")]
    /\ Record(req[q].key, "none", <<>>)
    /\ UNCHANGED <<redis, documents, document_chunks, next_id, run, call, authVars, workerVars>>

\* an awaited call of the retrieval stage raises (the embedding, a database
\* query, the reranker): the request fails before any stream exists
RetrievalFails(q) ==
    /\ req[q].pc \in {"EMBED_QUERY", "VECTOR_QUERY", "KEYWORD_QUERY", "RERANK", "LOAD_TITLES"}
    /\ req' = [req EXCEPT ![q] =
                 Ended([req[q] EXCEPT !.calls.search = 1,
                                      !.calls.rerank = IF req[q].pc = "RERANK" THEN 1 ELSE @,
                                      !.failed = <<req[q].pc>>],
                       "HTTP_500")]
    /\ Record(req[q].key, "none", <<>>)
    /\ UNCHANGED <<redis, documents, document_chunks, next_id, run, call, authVars, workerVars>>

\* search_related_chunks: query_vector = await get_embedding_async(...)
EmbedQuery(q) ==
    /\ req[q].pc = "EMBED_QUERY"
    /\ req' = [req EXCEPT ![q].pc = "VECTOR_QUERY", ![q].calls.search = 1]
    /\ UNCHANGED <<redis, lastDone, documents, document_chunks, next_id, run, call, authVars, workerVars>>

\* vector_results: the rows nearest to the query vector, at most limit * 4
VectorQuery(q) ==
    /\ req[q].pc = "VECTOR_QUERY"
    /\ \E ordered \in Orderings(document_chunks) :
         req' = [req EXCEPT ![q].vector_results =
                                Take(ordered, SearchLimit * CandidatesFactor),
                            ![q].pc = "KEYWORD_QUERY"]
    /\ UNCHANGED <<redis, lastDone, documents, document_chunks, next_id, run, call, authVars, workerVars>>

\* if not chunks: return StreamingResponse(empty_stream())
AfterSearchNoCheck(chunks) == "LOAD_TITLES"

AfterSearch(chunks) == IF chunks = <<>> THEN "EMPTY_STREAM" ELSE "LOAD_TITLES"

\* keyword_results: the rows whose search_vector matches, at most limit * 4;
\* then the merge; an empty candidate list makes search_related_chunks
\* return [] without calling rerank_results
KeywordQuery(q) ==
    /\ req[q].pc = "KEYWORD_QUERY"
    /\ \E matching \in SUBSET document_chunks :
       \E ordered \in Orderings(matching) :
         LET keyword_results == Take(ordered, SearchLimit * CandidatesFactor)
             candidates_list == MergeCandidates(req[q].vector_results, keyword_results)
         IN req' = [req EXCEPT ![q].vector_results = <<>>,
                               ![q].candidates = candidates_list,
                               ![q].ncand = Len(candidates_list),
                               ![q].pc = IF candidates_list = <<>>
                                         THEN AfterSearch(<<>>) ELSE "RERANK"]
    /\ UNCHANGED <<redis, lastDone, documents, document_chunks, next_id, run, call, authVars, workerVars>>

\* rerank_results on a non-empty list: the cross-encoder returns the scores,
\* then sort, floor, top_k
RerankResults(q) ==
    /\ req[q].pc = "RERANK"
    /\ \E scores \in [1..Len(req[q].candidates) -> ScoreValues] :
         LET final_chunks == RerankWithScores(req[q].candidates, scores, SearchLimit) IN
         req' = [req EXCEPT ![q].candidates = <<>>,
                            ![q].chunks = final_chunks,
                            ![q].calls.rerank = 1,
                            ![q].top_score = <<TopScore(req[q].candidates, scores)>>,
                            ![q].pc = AfterSearch(final_chunks)]
    /\ UNCHANGED <<redis, lastDone, documents, document_chunks, next_id, run, call, authVars, workerVars>>

\* empty_stream: yield the fixed message
EmptyStream(q) ==
    /\ req[q].pc = "EMPTY_STREAM"
    /\ req' = [req EXCEPT ![q] = Ended([req[q] EXCEPT !.out = <<NoInfoMessage>>],
                                       "NO_CONTEXT")]
    /\ Record(req[q].key, "uncached", <<>>)
    /\ UNCHANGED <<redis, documents, document_chunks, next_id, run, call, authVars, workerVars>>

\* docs_res = await db.execute(select(Document)...); the context is built and
\* StreamingResponse(response_generator()) is returned
LoadTitles(q) ==
    /\ req[q].pc = "LOAD_TITLES"
    /\ req' = [req EXCEPT ![q].pc = "STREAMING", ![q].chunks = <<>>]
    /\ UNCHANGED <<redis, lastDone, documents, document_chunks, next_id, run, call, authVars, workerVars>>

\* a yield that passes on the first fragment only
YieldFirstOnly(out, text_chunk) == IF out = <<>> THEN <<text_chunk>> ELSE out

\* yield text_chunk: the client receives the fragment
Yield(out, text_chunk) == Append(out, text_chunk)

\* a response_generator that writes the cache inside its loop
AStreamChunkCaching(q, text_chunk) ==
    /\ req[q].pc = "STREAMING"
    /\ Len(req[q].out) < MaxFragments
    /\ req' = [req EXCEPT ![q].llm_chunks = Append(@, text_chunk),
                          ![q].full_answer = @ \o text_chunk,
                          ![q].out = Append(@, text_chunk),
                          ![q].calls.llm = 1,
                          ![q].calls.set = 1]
    /\ redis' = StoredAnswer(req[q].question, req[q].full_answer \o text_chunk)
    /\ UNCHANGED <<lastDone, documents, document_chunks, next_id, run, call, authVars, workerVars>>

\* response_generator: the next chunk of chat.astream arrives;
\* full_answer += text_chunk; yield text_chunk
AStreamChunk(q, text_chunk) ==
    /\ req[q].pc = "STREAMING"
    /\ Len(req[q].out) < MaxFragments
    /\ req' = [req EXCEPT ![q].llm_chunks = Append(@, text_chunk),
                          ![q].full_answer = @ \o text_chunk,
                          ![q].out = Yield(@, text_chunk),
                          ![q].calls.llm = 1]
    /\ UNCHANGED <<redis, lastDone, documents, document_chunks, next_id, run, call, authVars, workerVars>>

\* if len(full_answer) > 20
ShouldCacheNonEmpty(full_answer) == Len(full_answer) > 0

ShouldCache(full_answer) == Len(full_answer) > MinCachedLen

\* an end of the loop that deletes the entry when the answer is too short
AStreamEndErasesShort(q) ==
    /\ req[q].pc = "STREAMING"
    /\ IF ShouldCache(req[q].full_answer)
       THEN /\ req' = [req EXCEPT ![q].pc = "SET_CACHE", ![q].calls.llm = 1]
            /\ UNCHANGED <<lastDone, redis>>
       ELSE /\ req' = [req EXCEPT ![q] = Ended([req[q] EXCEPT !.calls.llm = 1], "DONE")]
            /\ redis' = RedisDel(req[q].key)
            /\ Record(req[q].key, "uncached", <<>>)
    /\ UNCHANGED <<documents, document_chunks, next_id, run, call, authVars, workerVars>>

\* chat.astream is exhausted: the loop of response_generator ends
AStreamEnd(q) ==
    /\ req[q].pc = "STREAMING"
    /\ IF ShouldCache(req[q].full_answer)
       THEN /\ req' = [req EXCEPT ![q].pc = "SET_CACHE", ![q].calls.llm = 1]
            /\ UNCHANGED lastDone
       ELSE /\ req' = [req EXCEPT ![q] = Ended([req[q] EXCEPT !.calls.llm = 1], "DONE")]
            /\ Record(req[q].key, "uncached", <<>>)
    /\ UNCHANGED <<redis, documents, document_chunks, next_id, run, call, authVars, workerVars>>

\* await set_cached_answer(question, full_answer)
SetCachedAnswer(q) ==
    /\ req[q].pc = "SET_CACHE"
    /\ redis' = StoredAnswer(req[q].question, req[q].full_answer)
    /\ req' = [req EXCEPT ![q] = Ended([req[q] EXCEPT !.calls.set = 1], "DONE")]
    /\ Record(req[q].key, "cached", req[q].full_answer)
    /\ UNCHANGED <<documents, document_chunks, next_id, run, call, authVars, workerVars>>

\* a failure of chat.astream handled by saving what has been received
AStreamRaisesSavesPartial(q) ==
    /\ req[q].pc = "STREAMING"
    /\ redis' = IF ShouldCache(req[q].full_answer)
                THEN StoredAnswer(req[q].question, req[q].full_answer) ELSE redis
    /\ req' = [req EXCEPT ![q] = Ended([req[q] EXCEPT !.calls.llm = 1], "STREAM_RAISED")]
    /\ Record(req[q].key, "none", <<>>)
    /\ UNCHANGED <<documents, document_chunks, next_id, run, call, authVars, workerVars>>

\* chat.astream raises (no connection, timeout): generate_answer_stream and
\* response_generator have no handler, the exception leaves the stream
AStreamRaises(q) ==
    /\ req[q].pc = "STREAMING"
    /\ req' = [req EXCEPT ![q] = Ended([req[q] EXCEPT !.calls.llm = 1], "STREAM_RAISED")]
    /\ Record(req[q].key, "none", <<>>)
    /\ UNCHANGED <<redis, documents, document_chunks, next_id, run, call, authVars, workerVars>>

\* the cache write placed in a finally block of response_generator
ClientDisconnectSavesPartial(q) ==
    /\ req[q].pc \in {"STREAMING", "SET_CACHE"}
    /\ redis' = IF ShouldCache(req[q].full_answer)
                THEN StoredAnswer(req[q].question, req[q].full_answer) ELSE redis
    /\ req' = [req EXCEPT ![q] = Ended(req[q], "ABORTED")]
    /\ Record(req[q].key, "none", <<>>)
    /\ UNCHANGED <<documents, document_chunks, next_id, run, call, authVars, workerVars>>

\* the client goes away: the generator is closed where it is suspended, the
\* code after that point does not run
ClientDisconnect(q) ==
    /\ req[q].pc \in {"STREAMING", "SET_CACHE"}
    /\ req' = [req EXCEPT ![q] = Ended(req[q], "ABORTED")]
    /\ Record(req[q].key, "none", <<>>)
    /\ UNCHANGED <<redis, documents, document_chunks, next_id, run, call, authVars, workerVars>>

\* the time to live of an entry (24 hours) runs out
Expire(key) ==
    /\ key \in DOMAIN redis
    /\ redis' = RedisDel(key)
    /\ lastDone' = [lastDone EXCEPT ![key] = NoneDone]
    /\ UNCHANGED <<req, documents, document_chunks, next_id, run, call, authVars, workerVars>>

(***************************************************************************)
(* Document upload and indexing (process_document).                        *)
(***************************************************************************)
NUL == "NUL"             \* the character "\x00"

ALLOWED_EXTENSIONS == {".jpg", ".jpeg", ".png", ".pdf", ".doc", ".docx", ".xls", ".xlsx"}
RAG_EXTENSIONS == {".pdf", ".doc", ".docx"}

MAX_FILE_SIZE == 10 * 1024 * 1024

\* uploaded files: the extension (suffix of the file name, lowercased), the
\* size in bytes, whether the loader can read the file, and the text of its
\* pages (a Word file is one text)
PdfGood    == [ext |-> ".pdf", size |-> 1024, corrupt |-> FALSE,
               pages |-> << Rep("a", 50), Rep("b", 49), <<NUL>> \o Rep("c", 50) >>]
PdfShort   == [ext |-> ".pdf", size |-> 1024, corrupt |-> FALSE,
               pages |-> << Rep("b", 49) \o <<NUL>> >>]
PdfCorrupt == [ext |-> ".pdf", size |-> 1024, corrupt |-> TRUE, pages |-> << Rep("a", 50) >>]
PdfEmpty   == [ext |-> ".pdf", size |-> 1024, corrupt |-> FALSE, pages |-> << <<>> >>]
PdfNoPages == [ext |-> ".pdf", size |-> 1024, corrupt |-> FALSE, pages |-> << >>]
DocxGood   == [ext |-> ".docx", size |-> 1024, corrupt |-> FALSE, pages |-> << Rep("d", 51) >>]
Picture    == [ext |-> ".png", size |-> 1024, corrupt |-> FALSE, pages |-> << >>]
\* a Word 97 file: Docx2txtLoader cannot open it
DocLegacy  == [ext |-> ".doc", size |-> 1024, corrupt |-> TRUE, pages |-> << Rep("d", 51) >>]
Sheet      == [ext |-> ".xlsx", size |-> 1024, corrupt |-> FALSE, pages |-> << >>]
\* a type that is not allowed, and a file over the size limit
Script     == [ext |-> ".exe", size |-> 1024, corrupt |-> FALSE, pages |-> << >>]
PdfHuge    == [ext |-> ".pdf", size |-> MAX_FILE_SIZE + 1, corrupt |-> FALSE,
               pages |-> << Rep("a", 50) >>]

Files == {PdfGood, PdfShort, PdfCorrupt, PdfEmpty, PdfNoPages, DocxGood, Picture,
          DocLegacy, Sheet, Script, PdfHuge}

Runs == 1..NumRuns

\* loader.load(): PyPDFLoader gives one document per page with metadata
\* page = 0, 1, ...; Docx2txtLoader gives one document, whose page is set to 1
LoadRawDocs(file) ==
    IF file.ext = ".pdf"
    THEN [i \in 1..Len(file.pages) |-> [page_content |-> file.pages[i], page |-> i - 1]]
    ELSE [i \in 1..Len(file.pages) |-> [page_content |-> file.pages[i], page |-> 1]]

RECURSIVE SplitDocuments(_)
\* text_splitter.split_documents for pages no longer than chunk_size: each
\* page with text is one chunk carrying the page's metadata, a page without
\* text gives no chunk
SplitDocuments(raw_docs) ==
    IF raw_docs = <<>> THEN <<>>
    ELSE IF Head(raw_docs).page_content = <<>> THEN SplitDocuments(Tail(raw_docs))
         ELSE <<Head(raw_docs)>> \o SplitDocuments(Tail(raw_docs))

RECURSIVE RemoveNul(_)
\* chunk.page_content.replace("\x00", "")
RemoveNul(s) ==
    IF s = <<>> THEN <<>>
    ELSE IF Head(s) = NUL THEN RemoveNul(Tail(s)) ELSE <<Head(s)>> \o RemoveNul(Tail(s))

\* page_num = chunk.metadata.get("page", 0); if isinstance(page_num, int): page_num += 1
PageNum(chunk) == chunk.page + 1

\* of a run: the position in process_document (NOT_INDEXED: none was started)
\* and its locals; as history: written, the ids of the rows it inserted;
\* logged, whether its handler logged an exception; by, what started it;
\* http, the status of the upload response (0: not an upload); scheduled,
\* how many times the upload called background_tasks.add_task
IdleRun ==
    [pc |-> "IDLE", doc_id |-> 0, file |-> Picture, chunks |-> <<>>, i |-> 0,
     new_chunks |-> <<>>, written |-> {}, logged |-> FALSE,
     by |-> "none", http |-> 0, scheduled |-> 0]

\* except Exception as e: logger.exception(...)
OnExceptionPropagate(st) == [st EXCEPT !.pc = "RAISED"]

OnException(st) == [st EXCEPT !.pc = "RETURNED", !.logged = TRUE]

RECURSIVE ForLoopRawLength(_)
\* the loop testing the length of the text before the NUL characters are removed
ForLoopRawLength(st) ==
    IF st.i >= Len(st.chunks)
    THEN [st EXCEPT !.pc = IF st.new_chunks # <<>> THEN "COMMIT" ELSE "RETURNED"]
    ELSE IF Len(st.chunks[st.i + 1].page_content) < MinChunkLen
         THEN ForLoopRawLength([st EXCEPT !.i = @ + 1])
         ELSE [st EXCEPT !.pc = "EMBED"]

RECURSIVE ForLoop(_)
\* the for loop from index st.i up to its next await: chunks shorter than 50
\* after cleaning are skipped; the first other chunk waits for its embedding;
\* after the last chunk the rows are committed if there are any
ForLoop(st) ==
    IF st.i >= Len(st.chunks)
    THEN [st EXCEPT !.pc = IF st.new_chunks # <<>> THEN "COMMIT" ELSE "RETURNED"]
    ELSE IF Len(RemoveNul(st.chunks[st.i + 1].page_content)) < MinChunkLen
         THEN ForLoop([st EXCEPT !.i = @ + 1])
         ELSE [st EXCEPT !.pc = "EMBED"]

\* if file_ext in RAG_EXTENSIONS, with every allowed type taken as text
ShouldIndexAllowed(file_ext) == file_ext \in ALLOWED_EXTENSIONS

\* if file_ext in RAG_EXTENSIONS
ShouldIndex(file_ext) == file_ext \in RAG_EXTENSIONS

\* the upload is answered without a Document row and without a background task
Rejected(file, status) ==
    [IdleRun EXCEPT !.pc = "NOT_INDEXED", !.file = file, !.by = "upload", !.http = status]

\* upload_document: the extension and the size are checked (400, 413), the
\* Document row is committed (commit_ok: the commit does not raise), and a
\* file of a text type is handed to the background task
UploadDocument(r, file, commit_ok) ==
    /\ run[r].pc = "IDLE"
    /\ \A r2 \in Runs : r2 < r => run[r2].pc # "IDLE"
    /\ IF file.ext \notin ALLOWED_EXTENSIONS
       THEN /\ run' = [run EXCEPT ![r] = Rejected(file, 400)]
            /\ UNCHANGED <<documents, next_id>>
       ELSE IF file.size > MAX_FILE_SIZE
       THEN /\ run' = [run EXCEPT ![r] = Rejected(file, 413)]
            /\ UNCHANGED <<documents, next_id>>
       ELSE IF ~commit_ok
       THEN /\ run' = [run EXCEPT ![r] = Rejected(file, 500)]
            /\ UNCHANGED <<documents, next_id>>
       ELSE /\ documents' = documents \cup {next_id.doc}
            /\ next_id' = [next_id EXCEPT !.doc = @ + 1]
            /\ run' = [run EXCEPT ![r] =
                         IF ShouldIndex(file.ext)
                         THEN [IdleRun EXCEPT !.pc = "LOAD", !.doc_id = next_id.doc,
                                              !.file = file, !.by = "upload",
                                              !.http = 201, !.scheduled = 1]
                         ELSE [IdleRun EXCEPT !.pc = "NOT_INDEXED", !.doc_id = next_id.doc,
                                              !.file = file, !.by = "upload",
                                              !.http = 201]]
    /\ UNCHANGED <<redis, req, lastDone, document_chunks, call, authVars, workerVars>>

\* the payload of a document_uploaded event, as the upload of run r0 would
\* announce it; the path of a file stands for the file
DocumentUploaded(r0) == [doc_id |-> run[r0].doc_id, file_path |-> Some(run[r0].file)]

\* a payload without doc_id and without file_path: data.get gives None
InvalidEvent == [doc_id |-> 0, file_path |-> None]

\* if not doc_id or not file_path: a doc_id that is missing, None or 0 is 0 here
InvalidEventData(data) == data.doc_id = 0 \/ data.file_path = None

\* process_document_event up to its first await, as the run it makes: an
\* invalid payload is logged and the handler returns, any other starts
\* process_document in a session of its own
ProcessDocumentEventRun(data) ==
    IF InvalidEventData(data)
    THEN [IdleRun EXCEPT !.pc = "NOT_INDEXED", !.by = "worker", !.logged = TRUE]
    ELSE [IdleRun EXCEPT !.pc = "LOAD", !.doc_id = data.doc_id,
                         !.file = data.file_path[1], !.by = "worker"]

\* worker.py, process_document_event, by a worker of the consumer group
\* whose loop is not followed: it takes an event from the documents topic
ProcessDocumentEvent(r, data) ==
    /\ run[r].pc = "IDLE"
    /\ \A r2 \in Runs : r2 < r => run[r2].pc # "IDLE"
    /\ run' = [run EXCEPT ![r] = ProcessDocumentEventRun(data)]
    /\ UNCHANGED <<redis, req, lastDone, documents, document_chunks, next_id, call, authVars, workerVars>>

\* the foreign key of document_chunks.document_id, ON DELETE CASCADE: the
\* rows of a deleted document go with it
OnDeleteKeepRows(doc_id) == document_chunks

OnDeleteCascade(doc_id) == { c \in document_chunks : c.document_id # doc_id }

\* the foreign key of document_chunks.document_id: a row can be inserted only
\* for a document that exists
ReferencesDocument(doc_id) == doc_id \in documents

\* delete_document: doc = await db.get(...) (404 when there is none); the
\* file is removed; await db.delete(doc); await db.commit()
DeleteDocument(doc_id) ==
    /\ doc_id \in documents
    /\ documents' = documents \ {doc_id}
    /\ document_chunks' = OnDeleteCascade(doc_id)
    /\ UNCHANGED <<redis, req, lastDone, next_id, run, call, authVars, workerVars>>

\* process_document up to its first await: load, split, start the loop
LoadAndSplit(r) ==
    /\ run[r].pc = "LOAD"
    /\ run' = [run EXCEPT ![r] =
                 IF run[r].file.corrupt THEN OnException(run[r])
                 ELSE IF LoadRawDocs(run[r].file) = <<>>
                      THEN [run[r] EXCEPT !.pc = "RETURNED"]
                      ELSE ForLoop([run[r] EXCEPT
                                      !.chunks = SplitDocuments(LoadRawDocs(run[r].file)),
                                      !.i = 0])]
    /\ UNCHANGED <<redis, req, lastDone, documents, document_chunks, next_id, call, authVars, workerVars>>

\* the loop body committing each row as soon as it is built
EmbedChunkCommitEach(r) ==
    /\ run[r].pc = "EMBED"
    /\ LET chunk == run[r].chunks[run[r].i + 1]
           db_chunk == DocumentChunk(next_id.chunk, run[r].doc_id, run[r].i,
                                     RemoveNul(chunk.page_content), PageNum(chunk))
       IN /\ run' = [run EXCEPT ![r] =
                       ForLoop([run[r] EXCEPT !.i = @ + 1, !.written = @ \cup {db_chunk.id}])]
          /\ document_chunks' = document_chunks \cup {db_chunk}
    /\ next_id' = [next_id EXCEPT !.chunk = @ + 1]
    /\ UNCHANGED <<redis, req, lastDone, documents, call, authVars, workerVars>>

\* vector = await get_embedding_async(clean_text) returns: the row is built
\* and appended, the loop goes on
EmbedChunk(r) ==
    /\ run[r].pc = "EMBED"
    /\ LET chunk == run[r].chunks[run[r].i + 1]
           db_chunk == DocumentChunk(0, run[r].doc_id, run[r].i,
                                     RemoveNul(chunk.page_content), PageNum(chunk))
       IN run' = [run EXCEPT ![r] =
                    ForLoop([run[r] EXCEPT !.new_chunks = Append(@, db_chunk),
                                           !.i = @ + 1])]
    /\ UNCHANGED <<redis, req, lastDone, documents, document_chunks, next_id, call, authVars, workerVars>>

\* get_embedding_async raises: the run ends in the handler
EmbedRaises(r) ==
    /\ run[r].pc = "EMBED"
    /\ run' = [run EXCEPT ![r] = OnException(run[r])]
    /\ UNCHANGED <<redis, req, lastDone, documents, document_chunks, next_id, call, authVars, workerVars>>

\* the rows of one run get their ids from the table's serial
InsertedRows(new_chunks, first_id) ==
    { [new_chunks[k] EXCEPT !.id = first_id + k - 1] : k \in 1..Len(new_chunks) }

\* a commit on a session shared by the runs: it writes the rows every run
\* has built so far
CommitSharedSession(r) ==
    LET pending == UNION { { run[r2].new_chunks[k] :
                                k \in 1..Len(run[r2].new_chunks) } : r2 \in Runs }
        ordered == CHOOSE seq \in Orderings(pending) : TRUE
    IN
    /\ run[r].pc = "COMMIT"
    /\ ReferencesDocument(run[r].doc_id)
    /\ document_chunks' = document_chunks \cup InsertedRows(ordered, next_id.chunk)
    /\ next_id' = [next_id EXCEPT !.chunk = @ + Len(ordered)]
    /\ run' = [run EXCEPT ![r].pc = "RETURNED",
                          ![r].written =
                              { c.id : c \in InsertedRows(ordered, next_id.chunk) }]
    /\ UNCHANGED <<redis, req, lastDone, documents, call, authVars, workerVars>>

\* db.add_all(new_chunks); await db.commit(): one transaction
Commit(r) ==
    /\ run[r].pc = "COMMIT"
    /\ ReferencesDocument(run[r].doc_id)
    /\ document_chunks' =
           document_chunks \cup InsertedRows(run[r].new_chunks, next_id.chunk)
    /\ next_id' = [next_id EXCEPT !.chunk = @ + Len(run[r].new_chunks)]
    /\ run' = [run EXCEPT ![r].pc = "RETURNED",
                          ![r].written =
                              { c.id : c \in InsertedRows(run[r].new_chunks, next_id.chunk) }]
    /\ UNCHANGED <<redis, req, lastDone, documents, call, authVars, workerVars>>

\* db.commit() raises (the database fails, or the document of the rows is
\* gone): the transaction writes nothing, the run ends in the handler
CommitRaises(r) ==
    /\ run[r].pc = "COMMIT"
    /\ run' = [run EXCEPT ![r] = OnException(run[r])]
    /\ UNCHANGED <<redis, req, lastDone, documents, document_chunks, next_id, call, authVars, workerVars>>

(***************************************************************************)
(* The Kafka worker (worker.py, consume).                                  *)
(***************************************************************************)
KAFKA_TOPIC_TASKS == "pyro.tasks.events"
KAFKA_TOPIC_DOCS == "pyro.documents.events"

\* KafkaProducerService.send_event: message = {"type": event_type, "payload": data}
Message(topic_name, event_type, data) ==
    [topic |-> topic_name, type |-> event_type, payload |-> data]

\* the payloads of document events: doc_id missing or 1, file_path missing,
\* or the path of a file that can be read, or of one that cannot
DocumentPayloads ==
    { [doc_id |-> d, file_path |-> f] :
          d \in {0, 1}, f \in {None, Some(PdfGood), Some(PdfCorrupt)} }

\* the messages of the two topics the worker subscribes to: document events,
\* the task_created event of create_task, an event of a type the loop does
\* not route, and a document event on the tasks topic
Messages ==
    { Message(KAFKA_TOPIC_DOCS, "document_uploaded", data) : data \in DocumentPayloads }
    \cup { Message(KAFKA_TOPIC_TASKS, "task_created", [task_id |-> 1, title |-> "t"]),
           Message(KAFKA_TOPIC_DOCS, "document_deleted", [doc_id |-> 1]),
           Message(KAFKA_TOPIC_TASKS, "document_uploaded",
                   [doc_id |-> 1, file_path |-> Some(PdfGood)]) }

\* the loop before its first message: at async for, nothing consumed, no
\* handler awaited
IdleWorker == [pc |-> "WAITING", offset |-> 0, r |-> 0]

\* send_event: the message is appended to its topic; the two topics are one
\* sequence here, in the order the consumer is given the messages
SendEvent(message) ==
    /\ Len(topic) < NumRuns
    /\ topic' = Append(topic, message)
    /\ UNCHANGED <<ragVars, authVars, worker>>

\* the handler started as a task of its own: the loop does not wait for it
CreateTaskHandler(offset, r) == [pc |-> "WAITING", offset |-> offset, r |-> r]

\* await process_document_event(data): the loop is suspended until the
\* handler of run r has returned
AwaitHandler(offset, r) == [pc |-> "HANDLING", offset |-> offset, r |-> r]

\* if topic == settings.KAFKA_TOPIC_DOCS and event_type == "document_uploaded"
IsDocumentUploaded(msg) == msg.topic = KAFKA_TOPIC_DOCS /\ msg.type = "document_uploaded"

\* async for msg in consumer: the loop takes the message at its offset and
\* routes it. A document_uploaded event of the documents topic goes to
\* process_document_event: an invalid payload is logged and the loop is back
\* at async for, any other starts the run r that the loop awaits. A
\* task_created event of the tasks topic goes to process_task_event, which
\* logs, sleeps and returns; any other message is only logged
Consume(r) ==
    /\ worker.pc = "WAITING"
    /\ worker.offset < Len(topic)
    /\ run[r].pc = "IDLE"
    /\ \A r2 \in Runs : r2 < r => run[r2].pc # "IDLE"
    /\ LET msg == topic[worker.offset + 1]
           handled == ProcessDocumentEventRun(msg.payload)
       IN IF IsDocumentUploaded(msg)
          THEN /\ run' = [run EXCEPT ![r] = handled]
               /\ worker' = IF handled.pc = "NOT_INDEXED"
                            THEN [worker EXCEPT !.offset = @ + 1]
                            ELSE AwaitHandler(worker.offset + 1, r)
          ELSE /\ worker' = [worker EXCEPT !.offset = @ + 1]
               /\ UNCHANGED run
    /\ UNCHANGED <<redis, req, lastDone, documents, document_chunks, next_id, call,
                   authVars, topic>>

\* process_document has returned, or raised into the except Exception of
\* process_document_event: either way the handler returns
HandlerDone(st) == st.pc \in {"RETURNED", "RAISED"}

\* process_document_event after process_document: the success is logged, or
\* except Exception as e: logger.error(...); the session is closed and the
\* loop is back at async for
HandlerReturns ==
    /\ worker.pc = "HANDLING"
    /\ HandlerDone(run[worker.r])
    /\ run' = [run EXCEPT ![worker.r] =
                 IF @.pc = "RAISED" THEN [@ EXCEPT !.pc = "RETURNED", !.logged = TRUE]
                 ELSE @]
    /\ worker' = [worker EXCEPT !.pc = "WAITING", !.r = 0]
    /\ UNCHANGED <<redis, req, lastDone, documents, document_chunks, next_id, call,
                   authVars, topic>>

\* the loop before its first message
InitWorkerLoop == topic = <<>> /\ worker = IdleWorker

(***************************************************************************)
(* Functions called on their own, outside a request.                       *)
(***************************************************************************)
NoCall == [op |-> "none"]

\* the rows a call may be given
CallRows == { DocumentChunk(id, 1, id - 1, Rep("a", 50), 1) : id \in 1..NumRows }

\* result lists of a query: rows of the table, none twice
ResultLists == UNION { Orderings(T) : T \in SUBSET CallRows }

\* scores of the cross-encoder: below, at and above the floor, two of them above
CallScores == ScoreValues \cup {7}

TopKs == 0..MaxTopK

\* search_related_chunks, the merge of the two result lists
MergeCall(vector_results, keyword_results) ==
    /\ call = NoCall
    /\ call' = [op |-> "merge", vector_results |-> vector_results,
                keyword_results |-> keyword_results,
                result |-> MergeCandidates(vector_results, keyword_results)]
    /\ UNCHANGED <<redis, req, lastDone, documents, document_chunks, next_id, run, authVars, workerVars>>

\* await rerank_results(query, chunks, top_k)
RerankResultsCall(chunks, scores, top_k) ==
    /\ call = NoCall
    /\ call' = [op |-> "rerank", chunks |-> chunks, scores |-> scores, top_k |-> top_k,
                result |-> RerankResultsOf(chunks, scores, top_k).final_chunks,
                submitted |-> RerankResultsOf(chunks, scores, top_k).submitted]
    /\ UNCHANGED <<redis, req, lastDone, documents, document_chunks, next_id, run, authVars, workerVars>>

\* spellings of three questions: as typed, in the other case, with
\* whitespace around
SpellingsOfA == { <<"A">>, <<"a">>, <<" ", "A", "\n">>, <<"\t", "a", " ">> }
SpellingsOfAB == { <<"a", " ", "B">>, <<" ", "A", " ", "b">> }
SpellingsOfE == { <<"U+00C9">>, <<"U+00E9", " ">> }

CallQuestions == SpellingsOfA \cup SpellingsOfAB \cup SpellingsOfE

\* the spellings of one question
SameQuestion == { SpellingsOfA, SpellingsOfAB, SpellingsOfE }

\* the question a spelling is a spelling of
QuestionOf(spelling) == CHOOSE spellings \in SameQuestion : spelling \in spellings

\* answers: ASCII, with a character of two bytes, empty
CallAnswers == { <<"o", "k">>, <<"U+00E9", "x">>, <<>> }

\* before the first call on the cache; live: as history, for each question
\* the answer of the latest set_cached_answer and the key it wrote, until
\* that key expires
NoCacheCall == [op |-> "none", live |-> << >>]

\* f with x mapped to v
MapSet(f, x, v) == [y \in DOMAIN f \cup {x} |-> IF y = x THEN v ELSE f[y]]

\* await set_cached_answer(question, answer)
SetCachedAnswerCall(question, answer) ==
    /\ redis' = StoredAnswer(question, answer)
    /\ call' = [op |-> "set", question |-> question, answer |-> answer,
                live |-> MapSet(call.live, QuestionOf(question),
                                [answer |-> answer, key |-> GetCacheKey(question)])]
    /\ UNCHANGED <<req, lastDone, documents, document_chunks, next_id, run, authVars, workerVars>>

\* await get_cached_answer(question)
GetCachedAnswerCall(question) ==
    /\ call' = [op |-> "get", question |-> question, result |-> CachedAnswer(question),
                live |-> call.live]
    /\ UNCHANGED <<redis, req, lastDone, documents, document_chunks, next_id, run, authVars, workerVars>>

\* the time to live of an entry runs out
TtlExpires(key) ==
    /\ key \in DOMAIN redis
    /\ redis' = RedisDel(key)
    /\ call' = [op |-> "expire",
                live |-> [n \in { x \in DOMAIN call.live : call.live[x].key # key }
                            |-> call.live[n]]]
    /\ UNCHANGED <<req, lastDone, documents, document_chunks, next_id, run, authVars, workerVars>>

(***************************************************************************)
(* Accounts and access tokens (app/security.py, app/api/auth.py,           *)
(* app/api/pyrotechnicians.py).                                            *)
(*                                                                         *)
(* A JWT is modelled by its claims sub and tv and, as history, its serial  *)
(* number iat in order of issue; the signature is left out, a token that   *)
(* does not decode is BadToken.  Expiry of tokens is left out.             *)
(* pwd_context is modelled as a tagged copy of the password (salts left    *)
(* out).  An authenticated request takes two steps: the dependency         *)
(* get_current_pyro, which loads the row of the user into the session of   *)
(* the request, and the body of the endpoint, which works on that loaded   *)
(* row; login and first_change_password take one step each.                *)
(***************************************************************************)
PyroIds == {1, 2}

Emails == {"admin", "user", "nobody"}

PlainPasswords == {"admin-pw", "temp", "new-secret"}

\* new_password has passed the schema (at least 8 characters)
NewPasswords == {"new-secret"}

\* pwd_context.hash(password)
GetPasswordHash(password) == <<"pbkdf2_sha256", password>>

\* verify_password(plain_password, password_hash)
VerifyPassword(plain_password, password_hash) ==
    IF password_hash = None
    THEN FALSE
    ELSE password_hash[1] = GetPasswordHash(plain_password)

\* the Pyrotechnician rows at the start: an administrator, and a user
\* created with a temporary password that has to be changed
InitialPyrotechnicians ==
    [id \in PyroIds |->
        IF id = 1
        THEN [id |-> 1, email |-> "admin",
              password_hash |-> Some(GetPasswordHash("admin-pw")),
              is_active |-> TRUE, is_admin |-> TRUE, token_version |-> 1,
              must_change_password |-> FALSE, login_count |-> 0]
        ELSE [id |-> id, email |-> "user",
              password_hash |-> Some(GetPasswordHash("temp")),
              is_active |-> TRUE, is_admin |-> FALSE, token_version |-> 1,
              must_change_password |-> TRUE, login_count |-> 0]]

\* select(Pyrotechnician).where(Pyrotechnician.email == email), .first()
PyroByEmail(email) ==
    { id \in DOMAIN pyrotechnicians : pyrotechnicians[id].email = email }

\* int(sub) of the str(subject) a token carries
IntOfSub(sub) ==
    IF \E n \in 0..9 : ToString(n) = sub
    THEN Some(CHOOSE n \in 0..9 : ToString(n) = sub)
    ELSE None

\* create_access_token(subject=..., token_version=...)
CreateAccessToken(subject, token_version) ==
    [sub |-> ToString(subject), tv |-> token_version,
     iat |-> Cardinality(tokens) + 1]

BadToken == [sub |-> "?", tv |-> 0, iat |-> 0]

NoRow == [id |-> 0]

NoResponse == [op |-> "none"]

AuthRequests == 1..NumAuthRequests

AdminRequests == 1..NumAdminRequests

IdleAuth ==
    [pc |-> "IDLE", token |-> BadToken, current |-> NoRow, known |-> 0,
     status |-> 0]

\* what login and first_change_password were sent and what they answered
Answer(op, email, password, status, detail) ==
    [op |-> op, email |-> email, password |-> password, status |-> status,
     detail |-> detail]

\* a login that does not look at the flag
MustChangePasswordIgnored(pyro) == FALSE

\* auth.py:66  if pyro.must_change_password
MustChangePassword(pyro) == pyro.must_change_password

\* security.py:125  if pyro.token_version != int(token_version)
VersionDiffers(pyro, token) == pyro.token_version # token.tv

\* POST /auth/login
Login(email, password) ==
    LET found == PyroByEmail(email)
        pyro == pyrotechnicians[CHOOSE id \in found : TRUE]
    IN
    /\ IF found = {} \/ pyro.password_hash = None
       THEN /\ response' = Answer("login", email, password, 401, "bad credentials")
            /\ UNCHANGED <<pyrotechnicians, tokens>>
       ELSE IF ~VerifyPassword(password, pyro.password_hash)
       THEN /\ response' = Answer("login", email, password, 401, "bad credentials")
            /\ UNCHANGED <<pyrotechnicians, tokens>>
       ELSE IF ~pyro.is_active
       THEN /\ response' = Answer("login", email, password, 403, "deactivated")
            /\ UNCHANGED <<pyrotechnicians, tokens>>
       ELSE IF MustChangePassword(pyro)
       THEN /\ response' = Answer("login", email, password, 403, "PASSWORD_CHANGE_REQUIRED")
            /\ UNCHANGED <<pyrotechnicians, tokens>>
       ELSE LET access_token == CreateAccessToken(pyro.id, pyro.token_version)
            IN
            /\ Cardinality(tokens) < MaxTokens
            /\ pyrotechnicians' =
                  [pyrotechnicians EXCEPT
                      ![pyro.id].login_count = pyro.login_count + 1]
            /\ tokens' = tokens \cup {access_token}
            /\ response' = Answer("login", email, password, 200, "token")
    /\ UNCHANGED <<ragVars, workerVars, revoked, authreq>>

\* POST /auth/first-change-password
FirstChangePassword(email, temp_password, new_password) ==
    LET found == PyroByEmail(email)
        pyro == pyrotechnicians[CHOOSE id \in found : TRUE]
    IN
    /\ IF found = {} \/ pyro.password_hash = None
       THEN /\ response' = Answer("first_change_password", email,
                                  temp_password, 400, "bad credentials")
            /\ UNCHANGED <<pyrotechnicians, tokens>>
       ELSE IF ~pyro.must_change_password
       THEN /\ response' = Answer("first_change_password", email,
                                  temp_password, 400, "not required")
            /\ UNCHANGED <<pyrotechnicians, tokens>>
       ELSE IF ~pyro.is_active
       THEN /\ response' = Answer("first_change_password", email,
                                  temp_password, 403, "deactivated")
            /\ UNCHANGED <<pyrotechnicians, tokens>>
       ELSE IF ~VerifyPassword(temp_password, pyro.password_hash)
       THEN /\ response' = Answer("first_change_password", email,
                                  temp_password, 400, "bad temporary password")
            /\ UNCHANGED <<pyrotechnicians, tokens>>
       ELSE LET access_token == CreateAccessToken(pyro.id, pyro.token_version)
            IN
            /\ Cardinality(tokens) < MaxTokens
            /\ pyrotechnicians' =
                  [pyrotechnicians EXCEPT
                      ![pyro.id].password_hash =
                          Some(GetPasswordHash(new_password)),
                      ![pyro.id].must_change_password = FALSE,
                      ![pyro.id].login_count = pyro.login_count + 1]
            /\ tokens' = tokens \cup {access_token}
            /\ response' = Answer("first_change_password", email,
                                  temp_password, 200, "token")
    /\ UNCHANGED <<ragVars, workerVars, revoked, authreq>>

\* requests take their dependency in order of arrival
MayArrive(s) ==
    /\ authreq[s].pc = "IDLE"
    /\ IF s = 1 THEN TRUE ELSE authreq[s - 1].pc # "IDLE"

\* get_current_pyro(token): the row it loads and how it ends
CheckToken(token) ==
    LET user_id == IntOfSub(token.sub)
        pyro == IF user_id # None /\ user_id[1] \in DOMAIN pyrotechnicians
                THEN pyrotechnicians[user_id[1]]
                ELSE NoRow
    IN
    [pyro |-> pyro,
     pc |-> IF token = BadToken \/ user_id = None THEN "HTTP_401"
            ELSE IF pyro = NoRow THEN "HTTP_401"
            ELSE IF ~pyro.is_active THEN "HTTP_403"
            ELSE IF VersionDiffers(pyro, token) THEN "HTTP_401"
            ELSE "AUTHENTICATED"]

\* the dependency get_current_pyro(token) of request s
GetCurrentPyro(s, token) ==
    LET pc == CheckToken(token).pc
        pyro == CheckToken(token).pyro
    IN
    /\ MayArrive(s)
    /\ authreq' = [authreq EXCEPT
                      ![s] = IF pc = "AUTHENTICATED"
                             THEN [IdleAuth EXCEPT
                                      !.pc = pc, !.token = token,
                                      !.current = pyro,
                                      !.known = Cardinality(tokens)]
                             ELSE [IdleAuth EXCEPT !.pc = pc, !.token = token]]
    /\ UNCHANGED <<ragVars, workerVars, pyrotechnicians, tokens, revoked, response>>

\* the request is over: its session and the row it loaded are gone
Finished(status) == [IdleAuth EXCEPT !.pc = "DONE", !.status = status]

\* history: the tokens of a user that were issued before request s arrived
IssuedBefore(s, pyro_id) ==
    { t \in tokens : IntOfSub(t.sub) = Some(pyro_id) /\ t.iat <= authreq[s].known }

\* POST /auth/logout_all: current.token_version += 1 on the row that
\* get_current_pyro loaded, then UPDATE ... SET token_version = <that value>
LogoutAll(s) ==
    LET current == authreq[s].current IN
    /\ authreq[s].pc = "AUTHENTICATED"
    /\ pyrotechnicians' =
          [pyrotechnicians EXCEPT
              ![current.id].token_version = current.token_version + 1]
    /\ revoked' = revoked \cup IssuedBefore(s, current.id)
    /\ authreq' = [authreq EXCEPT ![s] = Finished(204)]
    /\ UNCHANGED <<ragVars, workerVars, tokens, response>>

\* await db.get(Pyrotechnician, pyro_id): the session returns the row it
\* already holds, and reads any other row from the table
DbGet(s, pyro_id) ==
    IF pyro_id = authreq[s].current.id
    THEN authreq[s].current
    ELSE IF pyro_id \in DOMAIN pyrotechnicians
    THEN pyrotechnicians[pyro_id]
    ELSE NoRow

\* POST /auth/users/{pyro_id}/invalidate_tokens, behind get_current_admin
InvalidateUserTokens(s, pyro_id) ==
    LET current == authreq[s].current
        pyro == DbGet(s, pyro_id)
    IN
    /\ authreq[s].pc = "AUTHENTICATED"
    /\ IF ~current.is_admin
       THEN /\ authreq' = [authreq EXCEPT
                              ![s] = Finished(403)]
            /\ UNCHANGED <<pyrotechnicians, revoked>>
       ELSE IF pyro = NoRow
       THEN /\ authreq' = [authreq EXCEPT
                              ![s] = Finished(404)]
            /\ UNCHANGED <<pyrotechnicians, revoked>>
       ELSE /\ pyrotechnicians' =
                  [pyrotechnicians EXCEPT
                      ![pyro_id].token_version = pyro.token_version + 1]
            /\ revoked' = revoked \cup IssuedBefore(s, pyro_id)
            /\ authreq' = [authreq EXCEPT
                              ![s] = Finished(204)]
    /\ UNCHANGED <<ragVars, workerVars, tokens, response>>

\* the bodies PATCH /pyrotechnicians/{pyro_id}/flags is sent with
FlagsPayloads ==
    { [is_active |-> FALSE], [is_active |-> TRUE],
      [must_change_password |-> TRUE], [is_admin |-> FALSE] }

\* PATCH /pyrotechnicians/{pyro_id}/flags, behind get_current_admin
UpdatePyrotechnicianFlags(s, pyro_id, payload) ==
    LET current == authreq[s].current
        pyro == DbGet(s, pyro_id)
        Field(f, old) == IF f \in DOMAIN payload THEN payload[f] ELSE old
    IN
    /\ authreq[s].pc = "AUTHENTICATED"
    /\ IF ~current.is_admin
       THEN /\ authreq' = [authreq EXCEPT ![s] = Finished(403)]
            /\ UNCHANGED pyrotechnicians
       ELSE IF pyro = NoRow
       THEN /\ authreq' = [authreq EXCEPT ![s] = Finished(404)]
            /\ UNCHANGED pyrotechnicians
       ELSE IF pyro.id = current.id /\ "is_admin" \in DOMAIN payload
                                    /\ payload["is_admin"] = FALSE
       THEN /\ authreq' = [authreq EXCEPT ![s] = Finished(400)]
            /\ UNCHANGED pyrotechnicians
       ELSE /\ pyrotechnicians' =
                  [pyrotechnicians EXCEPT
                      ![pyro_id].is_active = Field("is_active", @),
                      ![pyro_id].is_admin = Field("is_admin", @),
                      ![pyro_id].must_change_password =
                          Field("must_change_password", @)]
            /\ authreq' = [authreq EXCEPT ![s] = Finished(200)]
    /\ UNCHANGED <<ragVars, workerVars, tokens, revoked, response>>

InitAccounts ==
    /\ pyrotechnicians = InitialPyrotechnicians
    /\ tokens = {}
    /\ revoked = {}
    /\ authreq = [s \in AuthRequests |-> IdleAuth]
    /\ response = NoResponse


(***************************************************************************)
(* Specifications.                                                         *)
(***************************************************************************)
\* what indexing PdfGood as document 1 leaves in the chunk table
IndexedStore ==
    { DocumentChunk(1, 1, 0, Rep("a", 50), 1), DocumentChunk(2, 1, 2, Rep("c", 50), 3) }

InitCommon ==
    /\ redis = << >>     \* the store: key -> bytes
    /\ req = [q \in Queries |-> IdleRequest]
    /\ lastDone = [k \in CacheKeys |-> NoneDone]
    /\ run = [r \in Runs |-> IdleRun]
    /\ call = NoCall
    /\ InitAccounts
    /\ InitWorkerLoop

\* the assistant over an empty or an indexed knowledge base
Init ==
    /\ InitCommon
    /\ \/ documents = {} /\ document_chunks = {} /\ next_id = [doc |-> 1, chunk |-> 1]
       \/ documents = {1} /\ document_chunks = IndexedStore
                          /\ next_id = [doc |-> 2, chunk |-> 3]

Next ==
    \/ \E q \in Queries, payload \in Payloads : AskAssistantStream(q, payload)
    \/ \E q \in Queries : GetCachedAnswer(q)
    \/ \E q \in Queries : FakeStream(q)
    \/ \E q \in Queries : EmbedQuery(q)
    \/ \E q \in Queries : VectorQuery(q)
    \/ \E q \in Queries : KeywordQuery(q)
    \/ \E q \in Queries : RerankResults(q)
    \/ \E q \in Queries : RetrievalFails(q)
    \/ \E q \in Queries : EmptyStream(q)
    \/ \E q \in Queries : LoadTitles(q)
    \/ \E q \in Queries, text_chunk \in Fragments : AStreamChunk(q, text_chunk)
    \/ \E q \in Queries : AStreamEnd(q)
    \/ \E q \in Queries : SetCachedAnswer(q)
    \/ \E q \in Queries : AStreamRaises(q)
    \/ \E q \in Queries : ClientDisconnect(q)
    \/ \E key \in CacheKeys : Expire(key)

Spec == Init /\ [][Next]_vars

\* uploads and their indexing runs
InitIndex ==
    /\ InitCommon
    /\ documents = {} /\ document_chunks = {} /\ next_id = [doc |-> 1, chunk |-> 1]

NextIndex ==
    \/ \E r \in Runs, file \in Files, commit_ok \in BOOLEAN : UploadDocument(r, file, commit_ok)
    \/ \E r \in Runs : LoadAndSplit(r)
    \/ \E r \in Runs : EmbedChunk(r)
    \/ \E r \in Runs : EmbedRaises(r)
    \/ \E r \in Runs : Commit(r)
    \/ \E r \in Runs : CommitRaises(r)

SpecIndex == InitIndex /\ [][NextIndex]_vars

\* the events the worker may be given: one for each uploaded text document,
\* and one without doc_id
Events ==
    { DocumentUploaded(r0) : r0 \in { x \in Runs : run[x].scheduled = 1 } } \cup {InvalidEvent}

\* uploads, indexing by the background task and by the Kafka worker, deletes
NextStore ==
    \/ \E r \in Runs, file \in Files, commit_ok \in BOOLEAN : UploadDocument(r, file, commit_ok)
    \/ \E r \in Runs, data \in Events : ProcessDocumentEvent(r, data)
    \/ \E doc_id \in documents : DeleteDocument(doc_id)
    \/ \E r \in Runs : LoadAndSplit(r)
    \/ \E r \in Runs : EmbedChunk(r)
    \/ \E r \in Runs : EmbedRaises(r)
    \/ \E r \in Runs : Commit(r)
    \/ \E r \in Runs : CommitRaises(r)

SpecStore == InitIndex /\ [][NextStore]_vars

\* the worker over a store with one document and no chunk
InitWorker ==
    /\ InitCommon
    /\ documents = {1} /\ document_chunks = {} /\ next_id = [doc |-> 2, chunk |-> 1]

\* the producer, the consume loop and the indexing runs the loop awaits
NextWorker ==
    \/ \E message \in Messages : SendEvent(message)
    \/ \E r \in Runs : Consume(r)
    \/ HandlerReturns
    \/ \E r \in Runs : LoadAndSplit(r)
    \/ \E r \in Runs : EmbedChunk(r)
    \/ \E r \in Runs : EmbedRaises(r)
    \/ \E r \in Runs : Commit(r)
    \/ \E r \in Runs : CommitRaises(r)

SpecWorker == InitWorker /\ [][NextWorker]_vars

\* the merge and rerank_results called on their own, once, on any arguments
NextRetrieval ==
    \/ /\ call = NoCall
       /\ \E vector_results, keyword_results \in ResultLists :
             MergeCall(vector_results, keyword_results)
    \/ /\ call = NoCall
       /\ \E chunks \in ResultLists, top_k \in TopKs :
          \E scores \in [1..Len(chunks) -> CallScores] :
             RerankResultsCall(chunks, scores, top_k)

SpecRetrieval == InitIndex /\ [][NextRetrieval]_vars

\* the cache functions called on their own
InitCache ==
    /\ redis = << >>
    /\ req = [q \in Queries |-> IdleRequest]
    /\ lastDone = [k \in CacheKeys |-> NoneDone]
    /\ run = [r \in Runs |-> IdleRun]
    /\ documents = {} /\ document_chunks = {} /\ next_id = [doc |-> 1, chunk |-> 1]
    /\ call = NoCacheCall
    /\ InitAccounts
    /\ InitWorkerLoop

NextCache ==
    \/ \E question \in CallQuestions, answer \in CallAnswers :
          SetCachedAnswerCall(question, answer)
    \/ \E question \in CallQuestions : GetCachedAnswerCall(question)
    \/ \E key \in DOMAIN redis : TtlExpires(key)

SpecCache == InitCache /\ [][NextCache]_vars

\* sessions: logins, authenticated requests and the two session resets
NextSessions ==
    \/ \E email \in Emails, password \in PlainPasswords : Login(email, password)
    \/ \E email \in Emails, temp_password \in PlainPasswords,
          new_password \in NewPasswords :
          FirstChangePassword(email, temp_password, new_password)
    \/ \E s \in AuthRequests, token \in tokens \cup {BadToken} :
          GetCurrentPyro(s, token)
    \/ \E s \in AuthRequests : LogoutAll(s)
    \/ \E s \in AuthRequests, pyro_id \in PyroIds : InvalidateUserTokens(s, pyro_id)

SpecSessions == InitIndex /\ [][NextSessions]_vars

\* the tokens issued to the administrator
AdminTokens == { t \in tokens : IntOfSub(t.sub) = Some(1) }

\* passwords: logins, the first change of password, and an administrator
\* who changes the flags of the user
NextPassword ==
    \/ \E email \in Emails, password \in PlainPasswords : Login(email, password)
    \/ \E email \in Emails, temp_password \in PlainPasswords,
          new_password \in NewPasswords :
          FirstChangePassword(email, temp_password, new_password)
    \/ \E s \in AdminRequests, token \in AdminTokens : GetCurrentPyro(s, token)
    \/ \E s \in AdminRequests, pyro_id \in PyroIds \ {1},
          payload \in FlagsPayloads :
          UpdatePyrotechnicianFlags(s, pyro_id, payload)

SpecPassword == InitIndex /\ [][NextPassword]_vars



(***************************************************************************)
(* Properties of the query pipeline (specification Spec).                  *)
(***************************************************************************)
\* C1: when the cache check finds an entry, the request invokes none of
\* search_related_chunks, the reranker, the LLM and set_cached_answer, and
\* its stream is the one fragment that equals the cached text.
C1_CacheHitSingleFragment ==
    \A q \in Queries :
        req[q].cached # None =>
            /\ req[q].pc \in {"FAKE_STREAM", "CACHED_HIT"}
            /\ req[q].calls = NoCalls
            /\ req[q].out = IF req[q].pc = "CACHED_HIT" THEN <<req[q].cached[1]>> ELSE <<>>

C1_Witness ==
    \E q \in Queries :
        /\ req[q].pc = "CACHED_HIT"
        /\ req[q].key \in DOMAIN redis
        /\ req[q].out = <<RedisGet(req[q].key)[1]>>

\* a request reads the cache
CacheCheckStep(q) == req[q].pc = "CACHE_CHECK" /\ req'[q].pc # "CACHE_CHECK"

\* no other request is under way
Alone(q) == \A q2 \in Queries \ {q} : req[q2].pc \in Terminal \cup {"IDLE"}

\* C2 as stated: whatever the first call returned, a second call for the same
\* question that arrives after it has ended (nothing else under way, no
\* expiry in between) is served from the cache.
C2_SecondCallAlwaysCached ==
    [][\A q \in Queries :
          (CacheCheckStep(q) /\ req[q].arrived_alone /\ Alone(q)
              /\ lastDone[req[q].key].kind # "none")
              => req'[q].pc = "FAKE_STREAM"]_vars

\* C2 amended: if the first call returned a text that it read from or wrote to
\* the cache (a hit, or a generated answer longer than 20 characters), the
\* second call is served from the cache with exactly that text as its only
\* fragment and invokes no retrieval, reranking or generation.
C2_SecondCallCachedAfterCachedCall ==
    /\ [][\A q \in Queries :
            (CacheCheckStep(q) /\ lastDone[req[q].key].kind = "cached")
                => /\ req'[q].pc = "FAKE_STREAM"
                   /\ req'[q].cached = Some(lastDone[req[q].key].text)]_vars
    /\ [](\A q \in Queries :
            req[q].pc = "CACHED_HIT" =>
                req[q].out = <<req[q].cached[1]>> /\ req[q].calls = NoCalls)

C2_Witness ==
    \E q1, q2 \in Queries :
        /\ req[q1].pc = "DONE" /\ req[q1].calls.set = 1
        /\ req[q2].pc = "CACHED_HIT"
        /\ req[q2].out = <<Concat(req[q1].out)>>

\* C3: when both channels return no chunk, the request answers with the fixed
\* message as its only fragment and invokes neither the reranker model, nor
\* the LLM, nor set_cached_answer.
C3_NoCandidatesNoContext ==
    \A q \in Queries :
        req[q].ncand = 0 =>
            /\ req[q].pc \in {"EMPTY_STREAM", "NO_CONTEXT"}
            /\ req[q].calls.rerank = 0 /\ req[q].calls.llm = 0 /\ req[q].calls.set = 0
            /\ req[q].out = IF req[q].pc = "NO_CONTEXT" THEN <<NoInfoMessage>> ELSE <<>>

C3_Witness ==
    \E q \in Queries :
        req[q].pc = "NO_CONTEXT" /\ req[q].ncand = 0 /\ req[q].out = <<NoInfoMessage>>

\* C4: when there are candidates and the reranker scores none of them above
\* the floor, the request answers with the fixed message, makes no LLM call
\* and writes nothing to the cache.
C4_NoSurvivorNoContext ==
    \A q \in Queries :
        (req[q].ncand > 0 /\ req[q].top_score # <<>> /\ req[q].top_score[1] <= RelevanceFloor) =>
            /\ req[q].pc \in {"EMPTY_STREAM", "NO_CONTEXT"}
            /\ req[q].calls.llm = 0 /\ req[q].calls.set = 0
            /\ req[q].out = IF req[q].pc = "NO_CONTEXT" THEN <<NoInfoMessage>> ELSE <<>>

C4_Witness ==
    \E q \in Queries :
        /\ req[q].pc = "NO_CONTEXT" /\ req[q].ncand > 0
        /\ req[q].top_score = <<RelevanceFloor>>
        /\ req[q].out = <<NoInfoMessage>>

\* C5: set_cached_answer has been called only by requests whose answer stream
\* ran to its normal end, and every entry of the cache is the whole answer of
\* such a request; an abandoned request writes nothing.
C5_CacheHoldsOnlyCompleteAnswers ==
    /\ \A q \in Queries : req[q].calls.set = 1 => req[q].pc = "DONE"
    /\ \A k \in DOMAIN redis :
         \E q \in Queries :
             /\ req[q].pc = "DONE" /\ req[q].calls.set = 1
             /\ req[q].key = k /\ Concat(req[q].out) = RedisGet(k)[1]

C5_Witness ==
    \E q \in Queries :
        /\ req[q].pc = "ABORTED"
        /\ ShouldCache(Concat(req[q].out))
        /\ req[q].key \notin DOMAIN redis

C7_LLMFailureEndsStreamNormally ==
    \A q \in Queries : req[q].pc # "STREAM_RAISED"

\* C8: a request whose LLM call failed has not called set_cached_answer, the
\* failing step leaves the cache as it is, and the request does nothing
\* afterwards, however many fragments it had streamed.
C8_NoCacheWriteAfterLLMFailure ==
    /\ [](\A q \in Queries : req[q].pc = "STREAM_RAISED" => req[q].calls.set = 0)
    /\ [][\A q \in Queries :
            /\ (req[q].pc # "STREAM_RAISED" /\ req'[q].pc = "STREAM_RAISED")
                   => redis' = redis
            /\ req[q].pc = "STREAM_RAISED" => req'[q] = req[q]]_vars

C8_Witness ==
    \E q \in Queries :
        /\ req[q].pc = "STREAM_RAISED"
        /\ ShouldCache(Concat(req[q].out))
        /\ req[q].key \notin DOMAIN redis

\* C18: a request in which the query embedding, the vector query, the
\* keyword query or the reranker has raised ends as a failed request: it has
\* sent no fragment, has not called the LLM or set_cached_answer, its
\* failing step leaves the cache as it is, and it does nothing afterwards.
C18_RetrievalFailureFailsRequest ==
    /\ [](\A q \in Queries :
            req[q].failed # <<>> =>
                /\ req[q].pc = "HTTP_500" /\ req[q].out = <<>>
                /\ req[q].calls.llm = 0 /\ req[q].calls.set = 0)
    /\ [][\A q \in Queries :
            /\ (req[q].failed = <<>> /\ req'[q].failed # <<>>) => redis' = redis
            /\ req[q].failed # <<>> => req'[q] = req[q]]_vars

\* the keyword query has raised after the vector query had returned the rows
\* of the table, and a failure of the reranker
C18_Witness ==
    \E q1, q2 \in Queries :
        /\ req[q1].pc = "HTTP_500" /\ req[q1].failed = <<"KEYWORD_QUERY">>
        /\ document_chunks # {}
        /\ req[q2].pc = "HTTP_500" /\ req[q2].failed = <<"RERANK">> /\ req[q2].ncand > 0

(***************************************************************************)
(* Properties of indexing (specification SpecIndex).                       *)
(***************************************************************************)
RECURSIVE KeptTexts(_)
\* the cleaned texts, at least 50 characters long, of a sequence of pages
KeptTexts(pages) ==
    IF pages = <<>> THEN <<>>
    ELSE IF Len(SelectSeq(Head(pages), LAMBDA c : c # NUL)) >= MinChunkLen
         THEN <<SelectSeq(Head(pages), LAMBDA c : c # NUL)>> \o KeptTexts(Tail(pages))
         ELSE KeptTexts(Tail(pages))

\* the rows of the chunk table that belong to the document of run r
RowsOf(r) == { c \in document_chunks : c.document_id = run[r].doc_id }

\* C9: the chunk table holds either no row of a run or, once the run has
\* returned, one row for each chunk the run kept.
C9_IndexingAllOrNothing ==
    \A r \in Runs :
        \/ RowsOf(r) = {}
        \/ /\ run[r].pc = "RETURNED"
           /\ Cardinality(RowsOf(r)) = Len(KeptTexts(run[r].file.pages))
           /\ { c.content : c \in RowsOf(r) }
                  = { KeptTexts(run[r].file.pages)[k] :
                          k \in 1..Len(KeptTexts(run[r].file.pages)) }

\* a run that failed after it had built a row, and wrote none
C9_Witness ==
    \E r \in Runs :
        /\ run[r].pc = "RETURNED" /\ run[r].logged
        /\ Len(run[r].new_chunks) = 1
        /\ Len(KeptTexts(run[r].file.pages)) = 2
        /\ RowsOf(r) = {}

\* C11: every row of the chunk table, and every row a run has built, has a
\* content without NUL characters that is at least 50 characters long; the
\* text a run is embedding is at least 50 characters long after cleaning.
C11_ChunksAtLeastMinLength ==
    /\ \A c \in document_chunks :
         Len(c.content) >= 50 /\ \A k \in 1..Len(c.content) : c.content[k] # NUL
    /\ \A r \in Runs :
         /\ \A k \in 1..Len(run[r].new_chunks) : Len(run[r].new_chunks[k].content) >= 50
         /\ run[r].pc = "EMBED" =>
               Len(SelectSeq(run[r].chunks[run[r].i + 1].page_content,
                             LAMBDA c : c # NUL)) >= 50

\* a file with a page of 49 characters and a page that reaches 50 only with
\* its NUL character has been indexed: the first gave no row, the second did
\* not either unless 50 characters are left
C11_Witness ==
    \E r, r2 \in Runs :
        /\ run[r].file = PdfGood /\ run[r].pc = "RETURNED"
        /\ Cardinality(RowsOf(r)) = 2
        /\ \E c \in RowsOf(r) : c.content = Rep("c", 50)
        /\ run[r2].file = PdfShort /\ run[r2].pc = "RETURNED"
        /\ ~run[r2].logged /\ RowsOf(r2) = {}

\* C19: an upload has called add_task once if it was answered 201 and its
\* extension is .pdf, .doc or .docx, and not at all otherwise (rejected
\* type, file too large, failed commit, picture, spreadsheet); a call was
\* made only with the id of a committed Document row, and only an upload
\* with a call has an indexing run.
C19_IndexingScheduledOncePerTextUpload ==
    \A r \in Runs :
        run[r].by = "upload" =>
            /\ run[r].scheduled =
                   IF run[r].http = 201 /\ run[r].file.ext \in {".pdf", ".doc", ".docx"}
                   THEN 1 ELSE 0
            /\ run[r].scheduled > 0 => run[r].doc_id \in documents
            /\ run[r].scheduled = 0 <=> run[r].pc = "NOT_INDEXED"
            /\ run[r].http # 201 => run[r].doc_id \notin documents

\* a text upload with its run started, next to an upload of a spreadsheet
\* that was accepted
C19_Witness ==
    \E r, r2 \in Runs :
        /\ run[r].by = "upload" /\ run[r].http = 201 /\ run[r].file.ext = ".doc"
        /\ run[r].scheduled = 1 /\ run[r].pc = "RETURNED"
        /\ run[r2].by = "upload" /\ run[r2].http = 201 /\ run[r2].file.ext = ".xlsx"
        /\ run[r2].doc_id \in documents /\ run[r2].scheduled = 0

\* the file cannot be read, or no text is extracted from it
Unusable(file) ==
    file.corrupt \/ \A k \in 1..Len(file.pages) : file.pages[k] = <<>>

\* C10: a run on an unreadable file or on a file without text returns
\* normally, writes no row, and none of its steps changes the chunk table.
C10_UnusableFileIsNoOp ==
    /\ [](\A r \in Runs :
            (run[r].pc \notin {"IDLE", "LOAD", "NOT_INDEXED"} /\ Unusable(run[r].file))
                => run[r].pc = "RETURNED" /\ run[r].written = {} /\ RowsOf(r) = {})
    /\ [][\A r \in Runs :
            (run[r].pc = "LOAD" /\ Unusable(run[r].file) /\ run'[r] # run[r])
                => document_chunks' = document_chunks]_vars

C10_Witness ==
    \E r, r2 \in Runs :
        /\ run[r].file.corrupt /\ run[r].pc = "RETURNED" /\ run[r].logged
        /\ run[r2].written # {} /\ run[r2].written = { c.id : c \in document_chunks }

(***************************************************************************)
(* Properties of the chunk table under uploads, background and worker      *)
(* runs and deletes (specification SpecStore).                             *)
(***************************************************************************)
\* C12: no two rows of the same document have the same chunk_index, and
\* among the rows of a document the one inserted later (of the later source
\* chunk) has the larger chunk_index.
C12_ChunkIndexUniqueAndIncreasing ==
    \A c1, c2 \in document_chunks :
        (c1.document_id = c2.document_id /\ c1.id < c2.id)
            => c1.chunk_index < c2.chunk_index

\* C20: every row of the chunk table belongs to a document that exists, and
\* the step that deletes a document leaves no row of it; no step of a run
\* whose document is gone adds a row.
C20_ChunksBelongToExistingDocuments ==
    /\ [](\A c \in document_chunks : c.document_id \in documents)
    /\ [][\A doc_id \in documents :
            doc_id \notin documents' =>
                \A c \in document_chunks' : c.document_id # doc_id]_vars
    /\ [][\A r \in Runs :
            (run[r].pc # "IDLE" /\ run[r].doc_id \notin documents)
                => run'[r].written = run[r].written]_vars

\* the rows of an indexed document have gone with it, and a run that has
\* built its rows is about to commit them for a document deleted meanwhile
C20_Witness ==
    \E r, r2 \in Runs :
        /\ run[r].pc = "COMMIT" /\ run[r].new_chunks # <<>>
        /\ run[r].doc_id \notin documents
        /\ run[r2].pc = "RETURNED" /\ run[r2].written # {}
        /\ run[r2].doc_id \notin documents
        /\ document_chunks = {}

(***************************************************************************)
(* Properties of the merge and of rerank_results (specification            *)
(* SpecRetrieval).                                                         *)
(***************************************************************************)
\* the ids of the rows of a list
Ids(rows) == { rows[k].id : k \in 1..Len(rows) }

\* C13: every row returned by the vector query or by the keyword query is in
\* the merged list, each id exactly once (also an id that both queries
\* returned), and the merged list has no other row.
C13_MergedOnceEach ==
    call.op = "merge" =>
        /\ \A id \in Ids(call.vector_results) \cup Ids(call.keyword_results) :
               Cardinality({ k \in 1..Len(call.result) : call.result[k].id = id }) = 1
        /\ Ids(call.result) = Ids(call.vector_results) \cup Ids(call.keyword_results)

\* both queries returned a row, and each returned a row the other did not
C13_Witness ==
    /\ call.op = "merge"
    /\ Ids(call.vector_results) \cap Ids(call.keyword_results) # {}
    /\ Ids(call.vector_results) \ Ids(call.keyword_results) # {}
    /\ Ids(call.keyword_results) \ Ids(call.vector_results) # {}
    /\ Len(call.result) < Len(call.vector_results) + Len(call.keyword_results)

\* the score the model gave to a row of the call
ScoreOf(c) == call.scores[CHOOSE k \in 1..Len(call.chunks) : call.chunks[k] = c]

\* C14: for a non-empty candidate list and a top_k of 0 or more,
\* rerank_results returns at most top_k of the candidates, in order of
\* non-increasing score, each with a score above -8.
C14_RerankTopKOrderedAboveFloor ==
    (call.op = "rerank" /\ call.chunks # <<>>) =>
        /\ Len(call.result) <= call.top_k
        /\ \A i \in 1..Len(call.result) :
               /\ \E k \in 1..Len(call.chunks) : call.chunks[k] = call.result[i]
               /\ ScoreOf(call.result[i]) > -8
        /\ \A i, j \in 1..Len(call.result) :
               i < j => ScoreOf(call.result[i]) >= ScoreOf(call.result[j])

\* more candidates above the floor than top_k, with different scores, and one
\* candidate at the floor
C14_Witness ==
    /\ call.op = "rerank" /\ call.top_k = 2 /\ Len(call.chunks) = 3
    /\ call.scores = <<3, -8, 7>>
    /\ Len(call.result) = 2
    /\ ScoreOf(call.result[1]) = 7 /\ ScoreOf(call.result[2]) = 3

\* C15: rerank_results called with an empty list returns an empty list and
\* submits nothing to the executor.
C15_EmptyRerankNoModelCall ==
    (call.op = "rerank" /\ call.chunks = <<>>) =>
        call.result = <<>> /\ call.submitted = 0

C15_Witness ==
    /\ call.op = "rerank" /\ call.chunks = <<>> /\ call.top_k > 0
    /\ call.result = <<>>

(***************************************************************************)
(* Properties of the cache functions (specification SpecCache).            *)
(***************************************************************************)
\* C16: two spellings of a question that differ in case and in surrounding
\* whitespace have the same key, so that after set_cached_answer under one
\* of them get_cached_answer under each of them returns the answer; and the
\* key of a question the endpoint has stripped is the key of the question.
C16_KeyIgnoresCaseAndSurroundingWhitespace ==
    /\ \A spellings \in SameQuestion : \A q1, q2 \in spellings :
          GetCacheKey(q1) = GetCacheKey(q2)
    /\ \A q1 \in CallQuestions : GetCacheKey(Strip(q1)) = GetCacheKey(q1)
    /\ call.op = "set" =>
          \A spellings \in SameQuestion :
              call.question \in spellings =>
                  \A q2 \in spellings : CachedAnswer(q2) = Some(call.answer)

\* an answer set under one spelling has been read under another one
C16_Witness ==
    /\ call.op = "get"
    /\ call.question = <<"\t", "a", " ">>
    /\ call.result = Some(<<"o", "k">>)
    /\ DOMAIN redis = { GetCacheKey(<<"A">>) }

\* C17: get_cached_answer(q) returns, unchanged, the answer of the latest
\* set_cached_answer for q's question whose entry has not expired.
C17_CacheRoundTrip ==
    \A spellings \in SameQuestion :
        (call.op = "get" /\ call.question \in spellings /\ spellings \in DOMAIN call.live)
            => call.result = Some(call.live[spellings].answer)

\* an answer with a character of two bytes has been read back while another
\* question has an entry too
C17_Witness ==
    /\ call.op = "get" /\ call.question \in SpellingsOfAB
    /\ call.result = Some(<<"U+00E9", "x">>)
    /\ Cardinality(DOMAIN redis) = 2


(***************************************************************************)
(* Properties of sessions (specification SpecSessions).                    *)
(***************************************************************************)

\* the step is the dependency get_current_pyro of request s
AuthStep(s) == authreq[s].pc = "IDLE" /\ authreq'[s].pc # "IDLE"

\* the step is a session reset (logout_all, invalidate_user_tokens) answered 204
ResetStep(s) ==
    /\ authreq[s].pc = "AUTHENTICATED"
    /\ authreq'[s].pc = "DONE"
    /\ authreq'[s].status = 204

\* a token is accepted only with the version of its user, and a token of an
\* active user with another version is answered 401
C21_AcceptsOnlyCurrentVersion ==
    \A s \in AuthRequests :
        AuthStep(s) =>
            LET t == authreq'[s].token
                user_id == IntOfSub(t.sub)[1]
            IN
            /\ authreq'[s].pc = "AUTHENTICATED" =>
                   /\ t \in tokens
                   /\ pyrotechnicians[user_id].token_version = t.tv
            /\ ( /\ t \in tokens
                 /\ pyrotechnicians[user_id].is_active
                 /\ pyrotechnicians[user_id].token_version # t.tv )
                   => authreq'[s].pc = "HTTP_401"

\* a reset increases the token_version of one user by one
C21_ResetIncrementsByOne ==
    \A s \in AuthRequests :
        ResetStep(s) =>
            \E id \in PyroIds :
                /\ pyrotechnicians'[id].token_version =
                       pyrotechnicians[id].token_version + 1
                /\ \A other \in PyroIds \ {id} :
                       pyrotechnicians'[other] = pyrotechnicians[other]

\* no token issued before a finished reset of its user passes
\* get_current_pyro afterwards
C21_RevokedNeverAccepted ==
    \A t \in revoked : CheckToken(t).pc # "AUTHENTICATED"

\* C21: get_current_pyro accepts a token only if its version claim equals
\* the current token_version of the user, and answers 401 otherwise;
\* logout_all and invalidate_user_tokens each increase token_version by
\* one, so that every token issued before such a call is rejected by every
\* later get_current_pyro.
C21_OldTokensRejectedAfterReset ==
    /\ [][C21_AcceptsOnlyCurrentVersion /\ C21_ResetIncrementsByOne]_vars
    /\ []C21_RevokedNeverAccepted

\* the part of C21 that is about one call of get_current_pyro
C21_VersionCheck == [][C21_AcceptsOnlyCurrentVersion]_vars

\* the part of C21 that is about the two resets
C21_ResetsIncrement == [][C21_ResetIncrementsByOne]_vars

\* a token issued before a finished reset passes get_current_pyro again
C21_RevokedTokenAccepted == ~C21_RevokedNeverAccepted


(***************************************************************************)
(* Properties of passwords (specification SpecPassword).                   *)
(***************************************************************************)

\* the step is a call of login, of first_change_password
LoginStep ==
    response'.op = "login" /\ <<response, tokens>>' # <<response, tokens>>

FirstChangeStep ==
    /\ response'.op = "first_change_password"
    /\ <<response, tokens>>' # <<response, tokens>>

\* the user the call names, before the call
Named == pyrotechnicians[CHOOSE id \in PyroByEmail(response'.email) : TRUE]

\* while must_change_password is set, login issues no token and leaves the
\* row alone; with the right password of an active user it answers 403
\* PASSWORD_CHANGE_REQUIRED
C22_LoginBlockedWhileFlagSet ==
    ( /\ LoginStep
      /\ PyroByEmail(response'.email) # {}
      /\ Named.must_change_password )
        => /\ tokens' = tokens
           /\ pyrotechnicians' = pyrotechnicians
           /\ response'.status \in {401, 403}
           /\ ( /\ Named.is_active
                /\ VerifyPassword(response'.password, Named.password_hash) )
                  => /\ response'.status = 403
                     /\ response'.detail = "PASSWORD_CHANGE_REQUIRED"

\* first_change_password clears the flag, replaces the hash and issues a
\* token only for a user with the flag set, active, whose temporary
\* password verifies; no other call of it changes anything
C22_FirstChangeOnlyWhenDue ==
    FirstChangeStep =>
        IF response'.status = 200
        THEN /\ PyroByEmail(response'.email) # {}
             /\ Named.must_change_password
             /\ Named.is_active
             /\ VerifyPassword(response'.password, Named.password_hash)
             /\ ~pyrotechnicians'[Named.id].must_change_password
             /\ \E new_password \in NewPasswords :
                    pyrotechnicians'[Named.id].password_hash =
                        Some(GetPasswordHash(new_password))
             /\ \E t \in tokens' \ tokens :
                    /\ tokens' = tokens \cup {t}
                    /\ IntOfSub(t.sub) = Some(Named.id)
        ELSE /\ tokens' = tokens
             /\ pyrotechnicians' = pyrotechnicians

\* first_change_password has succeeded for the user before
HasChanged(pyro) ==
    \E new_password \in NewPasswords :
        pyro.password_hash = Some(GetPasswordHash(new_password))

\* once it has succeeded, a further first_change_password is answered 400
C22_RejectedOnceChanged ==
    ( /\ FirstChangeStep
      /\ PyroByEmail(response'.email) # {}
      /\ HasChanged(Named) )
        => response'.status = 400

\* a first_change_password for a user whose flag is not set is answered 400
C22_RejectedWhileFlagClear ==
    ( /\ FirstChangeStep
      /\ PyroByEmail(response'.email) # {}
      /\ ~Named.must_change_password )
        => /\ response'.status = 400
           /\ tokens' = tokens
           /\ pyrotechnicians' = pyrotechnicians

\* C22 as stated: while must_change_password is set login never issues a
\* token (403 PASSWORD_CHANGE_REQUIRED, login_count unchanged);
\* first_change_password succeeds only with the flag set, the user active
\* and the temporary password verifying; and once it has succeeded any
\* further first_change_password for that user is answered 400 and changes
\* nothing.
C22_FirstChangeHappensOnce ==
    [][ /\ C22_LoginBlockedWhileFlagSet
        /\ C22_FirstChangeOnlyWhenDue
        /\ C22_RejectedOnceChanged ]_vars

\* C22, amended: the same, but a further first_change_password is answered
\* 400 and changes nothing for as long as the flag stays cleared; an
\* administrator who sets the flag again makes it succeed again.
C22_FirstChangeOnlyWhileFlagSet ==
    [][ /\ C22_LoginBlockedWhileFlagSet
        /\ C22_FirstChangeOnlyWhenDue
        /\ C22_RejectedWhileFlagClear ]_vars

\* the user was answered PASSWORD_CHANGE_REQUIRED, has changed the
\* password, got a token, and a further first_change_password was answered
\* 400
C22_Witness ==
    /\ response = Answer("first_change_password", "user", "new-secret", 400,
                         "not required")
    /\ ~pyrotechnicians[2].must_change_password
    /\ HasChanged(pyrotechnicians[2])
    /\ pyrotechnicians[2].login_count = 1
    /\ \E t \in tokens : IntOfSub(t.sub) = Some(2)


(***************************************************************************)
(* Order of the stages of one request (specification Spec).                *)
(***************************************************************************)

\* request q invokes a stage in this step
Starts(q, stage) == req[q].calls[stage] = 0 /\ req'[q].calls[stage] = 1

\* C23: within one request the stages run in order: retrieval starts only
\* after the cache read has returned a miss, reranking only after both
\* retrieval channels have returned and been merged, the LLM is first
\* called only after reranking, and the cache is written only after the
\* last fragment has been yielded; no stage is entered twice.
C23_StagesInOrder ==
    [][ \A q \in Queries :
          /\ Starts(q, "search") =>
                 /\ req[q].pc = "EMBED_QUERY"
                 /\ req[q].cached = None
                 /\ req[q].calls = NoCalls
          /\ Starts(q, "rerank") =>
                 /\ req[q].pc = "RERANK"
                 /\ req[q].ncand >= 1
                 /\ req[q].calls = [NoCalls EXCEPT !.search = 1]
          /\ Starts(q, "llm") =>
                 /\ req[q].pc = "STREAMING"
                 /\ req[q].top_score # <<>>
                 /\ req[q].calls = [NoCalls EXCEPT !.search = 1, !.rerank = 1]
          /\ Starts(q, "set") =>
                 /\ req[q].pc = "SET_CACHE"
                 /\ req[q].calls = [NoCalls EXCEPT !.search = 1, !.rerank = 1,
                                                  !.llm = 1]
          /\ (req[q].pc = "SET_CACHE" \/ req[q].calls.set = 1) =>
                 req'[q].out = req[q].out
          /\ \A stage \in DOMAIN NoCalls :
                 req[q].calls[stage] = 1 => req'[q].calls[stage] = 1 ]_vars

\* a request has gone through every stage and written the cache
C23_Witness ==
    \E q \in Queries :
        /\ req[q].pc = "DONE"
        /\ req[q].calls = [search |-> 1, rerank |-> 1, llm |-> 1, set |-> 1]
        /\ req[q].ncand >= 1
        /\ Len(req[q].out) = MaxFragments


(***************************************************************************)
(* Numbering of chunks and pages (specification SpecIndex).                *)
(***************************************************************************)

\* C24: the rows a run has built carry chunk_index 0, 1, ... in the order
\* they were kept (a fragment dropped by the minimum-length filter uses no
\* index), so the rows a run has written are numbered 0..n-1 without gaps.
C24_ChunkIndexIsPositionAmongKept ==
    \A r \in Runs :
        /\ \A k \in 1..Len(run[r].new_chunks) :
               run[r].new_chunks[k].chunk_index = k - 1
        /\ run[r].pc = "RETURNED" =>
               { c.chunk_index : c \in RowsOf(r) }
                   = 0..(Cardinality(RowsOf(r)) - 1)

\* a file whose second fragment was dropped has been indexed
C24_GapInChunkIndex ==
    \E r \in Runs :
        /\ run[r].pc = "RETURNED" /\ run[r].file = PdfGood
        /\ { c.chunk_index : c \in RowsOf(r) } = {0, 2}

\* the 0-based source pages of file whose cleaned text is content
SourcePages(file, content) ==
    { p \in 0..(Len(file.pages) - 1) : RemoveNul(file.pages[p + 1]) = content }

\* a row of a PDF carries the number of its source page, counted from 1
C25_PdfPagesOneBased ==
    \A r \in Runs :
        run[r].file.ext = ".pdf" =>
            \A c \in RowsOf(r) :
                \E p \in SourcePages(run[r].file, c.content) : c.page_number = p + 1

\* a row of a Word document carries page 1
C25_WordPageIsOne ==
    \A r \in Runs :
        run[r].file.ext \in {".doc", ".docx"} =>
            \A c \in RowsOf(r) : c.page_number = 1

\* C25: page_number is 1-based: a chunk of the PDF page with 0-based index p
\* is stored with page_number p + 1, and every chunk of a Word document is
\* stored with page_number 1.
C25_PageNumberOneBased == C25_PdfPagesOneBased /\ C25_WordPageIsOne

\* the rows of a PDF and of a Word document are in the table
C25_WordPageIsTwo ==
    \E r, r2 \in Runs :
        /\ run[r].file = DocxGood /\ \E c \in RowsOf(r) : c.page_number = 2
        /\ run[r2].file = PdfGood
        /\ { c.page_number : c \in RowsOf(r2) } = {1, 3}


(***************************************************************************)
(* What rerank_results removes (specification SpecRetrieval).              *)
(***************************************************************************)

\* the positions of the call's candidates with a score not below the floor,
\* and with a score above it
NotBelowFloor == { k \in 1..Len(call.chunks) : call.scores[k] >= RelevanceFloor }

AboveTheFloor == { k \in 1..Len(call.chunks) : call.scores[k] > RelevanceFloor }

\* the call has returned exactly the best top_k of the candidates at the
\* positions passing: as many as there are, up to top_k, each once, and no
\* candidate left out scores higher than one returned
ReturnsBestOf(passing) ==
    LET returned == { k \in 1..Len(call.chunks) :
                         \E i \in 1..Len(call.result) : call.result[i] = call.chunks[k] }
    IN
    /\ returned \subseteq passing
    /\ Cardinality(returned) = Len(call.result)
    /\ Len(call.result) = IF call.top_k < Cardinality(passing)
                          THEN call.top_k ELSE Cardinality(passing)
    /\ \A k \in passing \ returned, j \in returned :
           call.scores[k] <= call.scores[j]

\* C26 as stated: rerank_results removes a candidate if and only if its
\* score is below the floor or it ranks outside the top_k of the rest: it
\* returns min(top_k, number of candidates not below the floor) chunks, and
\* no candidate left out that passes the floor scores higher than one
\* returned.
C26_RemovesBelowFloorOrOutsideTopK ==
    call.op = "rerank" => ReturnsBestOf(NotBelowFloor)

\* C26, amended: the same with the candidates whose score is above the
\* floor; a candidate that scores exactly -8.0 is removed as well.
C26_RemovesNotAboveFloorOrOutsideTopK ==
    call.op = "rerank" => ReturnsBestOf(AboveTheFloor)

\* room for two, and of three candidates the one at the floor and the one
\* below it are removed
C26_Witness ==
    /\ call.op = "rerank" /\ call.top_k = 2 /\ Len(call.chunks) = 3
    /\ call.scores = <<-8, 3, -9>>
    /\ call.result = <<call.chunks[2]>>


(***************************************************************************)
(* Indexing runs of different documents side by side (specification        *)
(* SpecIndex).                                                             *)
(***************************************************************************)

\* a row without the id the table gave it
Unnumbered(c) ==
    [document_id |-> c.document_id, chunk_index |-> c.chunk_index,
     content |-> c.content, page_number |-> c.page_number]

\* what process_document stores for the file when no other run is under way
\* and no call of it fails
AloneRows(file, doc_id) ==
    LET chunks == SplitDocuments(LoadRawDocs(file)) IN
    IF file.corrupt THEN {}
    ELSE { Unnumbered(DocumentChunk(0, doc_id, i - 1,
                                    RemoveNul(chunks[i].page_content),
                                    PageNum(chunks[i]))) :
              i \in { j \in 1..Len(chunks) :
                         Len(RemoveNul(chunks[j].page_content)) >= MinChunkLen } }

\* every row a run builds or writes carries the document_id of the run; the
\* table holds no row of a run before it has returned, and then the rows the
\* run would store alone, each once (none if the run failed)
C27_RunsStoreWhatTheyStoreAlone ==
    \A r \in Runs :
        /\ \A k \in 1..Len(run[r].new_chunks) :
               run[r].new_chunks[k].document_id = run[r].doc_id
        /\ \A c \in document_chunks :
               c.id \in run[r].written <=>
                   (run[r].by # "none" /\ c.document_id = run[r].doc_id)
        /\ run[r].pc \in {"LOAD", "EMBED", "COMMIT"} => RowsOf(r) = {}
        /\ run[r].pc = "RETURNED" =>
               /\ { Unnumbered(c) : c \in RowsOf(r) } =
                      IF run[r].logged THEN {}
                      ELSE AloneRows(run[r].file, run[r].doc_id)
               /\ Cardinality(RowsOf(r)) =
                      Cardinality({ Unnumbered(c) : c \in RowsOf(r) })

\* a step changes the rows of a document only if it is a step of its run,
\* and a step of a run changes the locals of no other run
C27_StepsDoNotInterfere ==
    \A r \in Runs :
        /\ run'[r] = run[r] =>
               { c \in document_chunks' : c.document_id = run[r].doc_id }
                   = RowsOf(r)
        /\ run'[r] # run[r] => \A r2 \in Runs \ {r} : run'[r2] = run[r2]

\* C27: indexing runs for different documents that interleave at each
\* embedding call and at the commit do not interfere: each run creates only
\* rows with its own document_id, and the rows finally stored for each
\* document are those the run would store alone.
C27_InterleavedRunsDoNotInterfere ==
    /\ []C27_RunsStoreWhatTheyStoreAlone
    /\ [][C27_StepsDoNotInterfere]_vars

\* two runs have overlapped: the run of the document uploaded first has
\* committed after the run of the second, and both have stored their rows
C27_Witness ==
    \E r, r2 \in Runs :
        /\ run[r].doc_id < run[r2].doc_id
        /\ run[r].pc = "RETURNED" /\ run[r].file = PdfGood
        /\ run[r2].pc = "RETURNED" /\ run[r2].file = DocxGood
        /\ Cardinality(RowsOf(r)) = 2 /\ Cardinality(RowsOf(r2)) = 1
        /\ \A c \in RowsOf(r), c2 \in RowsOf(r2) : c2.id < c.id


(***************************************************************************)
(* What response_generator forwards and caches (specification Spec).       *)
(***************************************************************************)

\* the request has called the LLM
Generating(q) ==
    req[q].pc \in {"STREAMING", "SET_CACHE"} \/ req[q].calls.llm = 1

\* C28: the client of a request has received the fragments the LLM has
\* produced so far, in that order, each once and as produced; the text the
\* request keeps for the cache spells these fragments; and the value a
\* request writes to the cache is the concatenation of all the fragments it
\* has yielded.
C28_FragmentsForwardedAndCachedWhole ==
    /\ [](\A q \in Queries :
             Generating(q) =>
                 /\ req[q].out = req[q].llm_chunks
                 /\ req[q].pc \in {"STREAMING", "SET_CACHE"} =>
                        req[q].full_answer = Concat(req[q].out))
    /\ [][\A q \in Queries :
             Starts(q, "set") =>
                 /\ req'[q].out = req[q].llm_chunks
                 /\ req[q].key \in DOMAIN redis'
                 /\ Utf8Decode(redis'[req[q].key]) = Concat(req'[q].out)]_vars

\* a request has passed on two different fragments and cached their
\* concatenation
C28_Witness ==
    \E q \in Queries :
        /\ req[q].pc = "DONE" /\ req[q].calls.set = 1
        /\ req[q].llm_chunks = <<Rep("y", 11), Rep("x", 10)>>
        /\ req[q].out = req[q].llm_chunks
        /\ RedisGet(req[q].key) = Some(Rep("y", 11) \o Rep("x", 10))


(***************************************************************************)
(* Requests for one question side by side (specification Spec).            *)
(***************************************************************************)

\* a request without the history of who was there when it arrived
Own(st) == [st EXCEPT !.arrived_alone = FALSE]

\* the step is a step of request q
StepOf(q) == Own(req'[q]) # Own(req[q])

\* the entry of key k is written in this step, is removed in this step
Written(k) ==
    k \in DOMAIN redis' /\ (k \in DOMAIN redis => redis'[k] # redis[k])

Removed(k) == k \in DOMAIN redis /\ k \notin DOMAIN redis'

\* C29: requests for one question that have both missed the cache each run
\* their own retrieval and generation, and a step of one changes nothing of
\* the other; the entry of their key changes only when one of them calls
\* set_cached_answer, and is then the whole answer of that request, whatever
\* the entry held; no step of a request removes an entry, so a request that
\* ends with a short answer leaves the entry of the other in place.
C29_ConcurrentMissesLastWriterWins ==
    /\ [](\A q \in Queries :
             (req[q].pc = "DONE" /\ req[q].cached = None) =>
                 req[q].calls.search = 1 /\ req[q].calls.llm = 1)
    /\ [][ /\ \A q \in Queries :
                StepOf(q) => \A q2 \in Queries \ {q} : ~StepOf(q2)
           /\ \A q \in Queries :
                Starts(q, "set") =>
                    /\ req[q].key \in DOMAIN redis'
                    /\ Utf8Decode(redis'[req[q].key]) = Concat(req[q].llm_chunks)
                    /\ \A k \in DOMAIN redis \ {req[q].key} :
                           k \in DOMAIN redis' /\ redis'[k] = redis[k]
           /\ \A k \in CacheKeys :
                /\ Written(k) => \E q \in Queries : Starts(q, "set") /\ req[q].key = k
                /\ Removed(k) => \A q \in Queries : ~StepOf(q) ]_vars

\* two requests for one question have both missed the cache; one has cached
\* its answer, the other has ended later with a short answer, and the entry
\* is still the answer of the first
C29_Witness ==
    \E q, q2 \in Queries :
        /\ q # q2 /\ req[q].key = req[q2].key
        /\ req[q].cached = None /\ req[q2].cached = None
        /\ req[q].pc = "DONE" /\ req[q].calls.set = 1
        /\ req[q2].pc = "DONE" /\ req[q2].calls.llm = 1 /\ req[q2].calls.set = 0
        /\ req[q2].out # <<>>
        /\ lastDone[req[q].key].kind = "uncached"
        /\ RedisGet(req[q].key) = Some(Concat(req[q].out))

\* both requests have missed and both have cached an answer
C29_BothWrote ==
    \E q, q2 \in Queries :
        /\ q # q2 /\ req[q].key = req[q2].key
        /\ req[q].cached = None /\ req[q2].cached = None
        /\ req[q].pc = "DONE" /\ req[q].calls.set = 1
        /\ req[q2].pc = "DONE" /\ req[q2].calls.set = 1
        /\ req[q].out # req[q2].out
        /\ RedisGet(req[q].key) = Some(Concat(req[q].out))

(***************************************************************************)
(* Properties of the Kafka worker (specification SpecWorker).              *)
(***************************************************************************)
\* a step in which the loop takes a message
TakesMessage == worker'.offset # worker.offset

\* the message the loop takes next
NextMessage == topic[worker.offset + 1]

\* the runs of the worker that have not finished
Unfinished == { r \in Runs : run[r].by = "worker" /\ run[r].pc \notin {"RETURNED", "NOT_INDEXED"} }

\* a message is taken only when every run the worker started has finished,
\* a failed one with its error logged; the message taken is the one after
\* the last one taken, and a valid document event starts the run of its own
\* document and file
C30_OneAtATimeInOrder ==
    [][TakesMessage =>
          /\ worker'.offset = worker.offset + 1
          /\ Unfinished = {}
          /\ \A r \in Runs :
                 (run[r].by = "worker" /\ run[r].pc = "RETURNED" /\ run[r].written = {}
                    /\ KeptTexts(run[r].file.pages) # <<>>) => run[r].logged
          /\ (NextMessage.topic = "pyro.documents.events"
                /\ NextMessage.type = "document_uploaded"
                /\ NextMessage.payload.doc_id # 0 /\ NextMessage.payload.file_path # <<>>)
             => \E r \in Runs :
                    /\ run[r].pc = "IDLE" /\ run'[r].pc = "LOAD"
                    /\ run'[r].doc_id = NextMessage.payload.doc_id
                    /\ <<run'[r].file>> = NextMessage.payload.file_path
                    /\ \A r2 \in Runs \ {r} : run'[r2] = run[r2]]_vars

\* a document event without doc_id or without file_path starts no run and
\* writes no row, and the loop is ready for the next message
C30_InvalidEventSkipped ==
    [][(TakesMessage /\ NextMessage.topic = "pyro.documents.events"
          /\ NextMessage.type = "document_uploaded"
          /\ (NextMessage.payload.doc_id = 0 \/ NextMessage.payload.file_path = <<>>))
       => /\ \A r \in Runs : run'[r].pc \in {"IDLE", "RETURNED", "NOT_INDEXED"}
          /\ \A r \in Runs : run'[r].doc_id = run[r].doc_id
          /\ document_chunks' = document_chunks
          /\ worker'.pc = "WAITING"]_vars

\* a step of the loop itself
LoopStep == HandlerReturns \/ \E r \in Runs : Consume(r)

\* whatever the runs did, failed ones included: once the run the loop waits
\* for has ended the loop goes on, and while a message is left and no run is
\* going the loop can take it
C30_LoopGoesOn ==
    /\ (worker.pc = "HANDLING" /\ run[worker.r].pc = "RETURNED") => ENABLED HandlerReturns
    /\ (worker.offset < Len(topic) /\ Unfinished = {}) => ENABLED LoopStep
    /\ \A r \in Runs : run[r].pc # "RAISED"

====
